---- MODULE Spec2Model ----
(***************************************************************************)
(* A model of the stl-viewer session: the monolithic viewer component      *)
(* (src/src/components/origin-board.tsx) with its file loading, mesh       *)
(* construction, gizmo, keyboard router and STL export, and the export     *)
(* hook (src/unnamed/part_000).                                            *)
(*                                                                         *)
(* Numbers.  Vertex coordinates and positions are integers.  Scale factors *)
(* and exported coordinates are exact fractions <<n, d>>; d = 0 stands for *)
(* the IEEE values the code can produce (<<1,0>> = Infinity, <<-1,0>> =    *)
(* -Infinity, <<0,0>> = NaN).  The model geometries have extents that are  *)
(* powers of two, so every value the code computes on them is exact in     *)
(* binary floating point and the fractions are the values the code holds.  *)
(*                                                                         *)
(* React.  currentMesh is a state value: a handler sees the value of the   *)
(* render in which it was created.  currentMesh is the value of the last   *)
(* committed render, pendingMesh the value queued by setCurrentMesh and    *)
(* not rendered yet, and every file load in flight carries the currentMesh *)
(* its handlers closed over when the file was chosen.  sceneRefs is a ref: *)
(* it is read at the time of the call.                                     *)
(***************************************************************************)
EXTENDS Integers, Sequences, FiniteSets, TLC

\* ------------------------------------------------------------------ bounds

\* Files chosen in the file input during one session.
MaxLoads == 2
\* Gizmo drags started during one session.
MaxDrags == 1
\* The gizmo size, in tenths, up to which the size keys enlarge it.
MaxSize == 11

\* ------------------------------------------------------------- arithmetic

Abs(n) == IF n < 0 THEN -n ELSE n

Max2(a, b) == IF a >= b THEN a ELSE b

Min2(a, b) == IF a <= b THEN a ELSE b

RECURSIVE Gcd(_, _)
Gcd(a, b) == IF b = 0 THEN a ELSE Gcd(b, a % b)

Sign(n) == IF n > 0 THEN 1 ELSE IF n < 0 THEN -1 ELSE 0

\* A fraction in lowest terms with a non-negative denominator.
Norm(q) ==
    IF q[2] = 0 THEN <<Sign(q[1]), 0>>
    ELSE LET g == Gcd(Abs(q[1]), Abs(q[2]))
             s == Sign(q[2])
         IN  <<(s * q[1]) \div g, (s * q[2]) \div g>>

Frac(n) == <<n, 1>>

QMul(p, q) == Norm(<<p[1] * q[1], p[2] * q[2]>>)

QAdd(p, q) == Norm(<<p[1] * q[2] + q[1] * p[2], p[2] * q[2]>>)

QNeg(p) == <<-p[1], p[2]>>

QSub(p, q) == QAdd(p, QNeg(q))

QHalf(p) == Norm(<<p[1], 2 * p[2]>>)

Zero3 == <<0, 0, 0>>

One3 == <<Frac(1), Frac(1), Frac(1)>>

FracVec(v) == <<Frac(v[1]), Frac(v[2]), Frac(v[3])>>

VAdd(a, b) == <<a[1] + b[1], a[2] + b[2], a[3] + b[3]>>

QVAdd(a, b) == <<QAdd(a[1], b[1]), QAdd(a[2], b[2]), QAdd(a[3], b[3])>>

QVSub(a, b) == <<QSub(a[1], b[1]), QSub(a[2], b[2]), QSub(a[3], b[3])>>

QCross(a, b) ==
    << QSub(QMul(a[2], b[3]), QMul(a[3], b[2])),
       QSub(QMul(a[3], b[1]), QMul(a[1], b[3])),
       QSub(QMul(a[1], b[2]), QMul(a[2], b[1])) >>

QLe(p, q) == p[1] * q[2] <= q[1] * p[2]

QMin(p, q) == IF QLe(p, q) THEN p ELSE q

QMax(p, q) == IF QLe(p, q) THEN q ELSE p

\* A quaternion is modelled by the number of quarter turns about the x axis
\* it stands for; this is the rotation it applies to a vector.
RECURSIVE Rotate(_, _)
Rotate(turns, v) ==
    IF turns % 4 = 0 THEN v
    ELSE Rotate((turns % 4) - 1, <<v[1], QNeg(v[3]), v[2]>>)

\* ---------------------------------------------------------- configuration

\* MESH_CONFIG.SCALE_FACTOR: the size the largest extent is scaled to.
SCALE_FACTOR == 2

\* ---------------------------------------------------------------- geometry

\* THREE.Box3 | null as held in BufferGeometry.boundingBox.
NullBox == [null |-> TRUE, empty |-> TRUE, min |-> Zero3, max |-> Zero3]

RECURSIVE BoxOfFrom(_, _, _)
BoxOfFrom(verts, i, box) ==
    IF i > Len(verts) THEN box
    ELSE LET v == verts[i]
         IN  BoxOfFrom(verts, i + 1,
               IF box.empty
               THEN [null |-> FALSE, empty |-> FALSE, min |-> v, max |-> v]
               ELSE [null |-> FALSE, empty |-> FALSE,
                     min |-> <<Min2(box.min[1], v[1]), Min2(box.min[2], v[2]),
                               Min2(box.min[3], v[3])>>,
                     max |-> <<Max2(box.max[1], v[1]), Max2(box.max[2], v[2]),
                               Max2(box.max[3], v[3])>>])

\* Box3.setFromBufferAttribute: an empty Box3 (not null) for no vertices.
BoxOf(verts) ==
    BoxOfFrom(verts, 1, [null |-> FALSE, empty |-> TRUE, min |-> Zero3, max |-> Zero3])

\* Box3.getSize: the zero vector for an empty box.
GetSize(box) ==
    IF box.empty THEN Zero3
    ELSE <<box.max[1] - box.min[1], box.max[2] - box.min[2], box.max[3] - box.min[3]>>

\* A THREE.BufferGeometry: id is the identity of the object and its buffers,
\* load the file load it came from (0: none).
NullGeometry ==
    [id |-> 0, verts |-> << >>, boundingBox |-> NullBox, disposed |-> FALSE, load |-> 0]

\* BufferGeometry.clone(): a new object with copies of the attribute arrays
\* and of the bounding box; a clone is never disposed.
Clone(geometry, id) == [geometry EXCEPT !.id = id, !.disposed = FALSE]

\* BufferGeometry.computeBoundingBox(): mutates the geometry's cached box.
ComputeBoundingBox(geometry) ==
    [geometry EXCEPT !.boundingBox = BoxOf(geometry.verts)]

\* An auto-scale that divides by the smallest extent.
calculateAutoScaleMin(geometry) ==
    LET box == ComputeBoundingBox(geometry).boundingBox
    IN  IF box.null THEN Frac(1)
        ELSE LET size == GetSize(box)
                 minDimension == Min2(size[1], Min2(size[2], size[3]))
             IN  Norm(<<SCALE_FACTOR, minDimension>>)

\* calculateAutoScale's return value.  The call also leaves the computed box
\* on the geometry passed in (ComputeBoundingBox).
calculateAutoScale(geometry) ==
    LET box == ComputeBoundingBox(geometry).boundingBox
    IN  IF box.null THEN Frac(1)
        ELSE LET size == GetSize(box)
                 maxDimension == Max2(size[1], Max2(size[2], size[3]))
             IN  Norm(<<SCALE_FACTOR, maxDimension>>)

\* calculateAutoScale of the file-loader hook.
calculateAutoScaleHook(geometry) ==
    LET boundingBox == ComputeBoundingBox(geometry).boundingBox
    IN  IF boundingBox.null THEN Frac(1)
        ELSE LET boundingBoxSize == GetSize(boundingBox)
                 maximumDimension ==
                     Max2(Max2(boundingBoxSize[1], boundingBoxSize[2]), boundingBoxSize[3])
                 scaleFactor == Norm(<<SCALE_FACTOR, maximumDimension>>)
             IN  scaleFactor

\* ------------------------------------------------------------------- files

\* Vertex lists (three vertices per triangle) of the sample models.
Small == << <<0, 0, 0>>, <<1, 0, 0>>, <<0, 1, 0>> >>

Wide == << <<0, 0, 0>>, <<4, 0, 0>>, <<0, 2, 1>> >>

Centred == << <<-1, -1, 0>>, <<1, -1, 0>>, <<0, 1, 0>>,
              <<-1, -1, 0>>, <<0, 1, 0>>, <<1, 1, 0>> >>

\* A file of the file input: its name (a sequence of characters) and what its
\* bytes hold: format is the format the bytes are valid for ("garbage": none),
\* meshes the geometries of its mesh nodes in depth-first order.
File(name, format, empty, meshes) ==
    [name |-> name, format |-> format, empty |-> empty, meshes |-> meshes]

NoFile == File(<< >>, "none", TRUE, << >>)

SmallStl == File(<<"a", ".", "s", "t", "l">>, "stl", FALSE, <<Small>>)

WideObj == File(<<"B", ".", "O", "B", "J">>, "obj", FALSE, <<Wide, Small>>)

CentredGlb == File(<<"c", ".", "g", "l", "b">>, "gltf", FALSE, <<Centred>>)

WideGltf == File(<<"d", ".", "g", "l", "t", "f">>, "gltf", FALSE, <<Wide, Centred>>)

BadGltf == File(<<"e", ".", "g", "l", "t", "f">>, "garbage", FALSE, << >>)

NoMeshObj == File(<<"f", ".", "o", "b", "j">>, "obj", FALSE, << >>)

TextFile == File(<<"g", ".", "t", "x", "t">>, "garbage", FALSE, << >>)

EmptyObj == File(<<"h", ".", "o", "b", "j">>, "obj", TRUE, << >>)

BadStl == File(<<"i", ".", "s", "t", "l">>, "garbage", FALSE, << >>)

\* A GLTF binary whose scene has no mesh node.
NoMeshGlb == File(<<"j", ".", "g", "l", "b">>, "gltf", FALSE, << >>)

\* OBJ text under an .stl name.
ObjNamedStl == File(<<"k", ".", "s", "t", "l">>, "obj", FALSE, <<Small>>)

\* A binary STL of zero triangles: a geometry without vertices.
EmptyStl == File(<<"z", ".", "s", "t", "l">>, "stl", FALSE, << << >> >>)

\* An OBJ whose one face has three coincident vertices: every extent is zero.
PointObj == File(<<"p", ".", "o", "b", "j">>, "obj", FALSE,
                 << << <<1, 1, 1>>, <<1, 1, 1>>, <<1, 1, 1>> >> >>)

ValidFiles == {SmallStl, WideObj, CentredGlb, WideGltf}

InvalidFiles == {BadGltf, NoMeshObj, TextFile, EmptyObj, BadStl, NoMeshGlb, ObjNamedStl}

\* Files that parse to a geometry without a largest extent.
DegenerateFiles == {EmptyStl, PointObj}

Files == ValidFiles \cup InvalidFiles \cup DegenerateFiles

\* String.prototype.toLowerCase on the letters the file names use.
LowerChar(c) ==
    CASE c = "B" -> "b"
      [] c = "J" -> "j"
      [] c = "O" -> "o"
      [] OTHER -> c

toLowerCase(name) == [i \in 1..Len(name) |-> LowerChar(name[i])]

endsWith(name, suffix) ==
    /\ Len(name) >= Len(suffix)
    /\ SubSeq(name, Len(name) - Len(suffix) + 1, Len(name)) = suffix

DotStl == <<".", "s", "t", "l">>

DotObj == <<".", "o", "b", "j">>

DotGltf == <<".", "g", "l", "t", "f">>

DotGlb == <<".", "g", "l", "b">>

\* handleFileUpload's choice of read mode: text for .obj, bytes otherwise.
ReadMode(file) ==
    IF endsWith(toLowerCase(file.name), DotObj) THEN "text" ELSE "buffer"

\* reader.onload's `if (!contents) return`: only the empty string is falsy;
\* an empty ArrayBuffer is an object.
Falsy(file) == ReadMode(file) = "text" /\ file.empty

\* A dispatch on the name as it is, without lower-casing it.
ParserCaseSensitive(file) ==
    IF endsWith(file.name, DotStl) THEN "stl"
    ELSE IF endsWith(file.name, DotObj) THEN "obj"
    ELSE IF endsWith(file.name, DotGltf) \/ endsWith(file.name, DotGlb) THEN "gltf"
    ELSE "none"

\* reader.onload's dispatch on the lower-cased name.
Parser(file) ==
    LET fileName == toLowerCase(file.name)
    IN  IF endsWith(fileName, DotStl) THEN "stl"
        ELSE IF endsWith(fileName, DotObj) THEN "obj"
        ELSE IF endsWith(fileName, DotGltf) \/ endsWith(fileName, DotGlb) THEN "gltf"
        ELSE "none"

\* STLLoader.parse: a geometry, or an exception on bytes that are no STL
\* (the face count read from the header runs past the buffer).
STLThrows(file) == file.empty \/ file.format # "stl"

\* A traversal that keeps the last mesh node it meets instead of the first.
ParsedMeshesLast(file, parser) ==
    IF file.format = parser /\ ~file.empty /\ file.meshes # << >>
    THEN <<file.meshes[Len(file.meshes)]>>
    ELSE << >>

\* The mesh nodes OBJLoader.parse / GLTFLoader.parse produce, in traversal
\* order.  OBJLoader is lenient: text that is no OBJ yields no mesh.
ParsedMeshes(file, parser) ==
    IF file.format = parser /\ ~file.empty THEN file.meshes ELSE << >>

\* GLTFLoader.parse reports bytes that are no GLTF through onError.
GLTFFails(file) == file.empty \/ file.format # "gltf"

\* ------------------------------------------------------------------- state

VARIABLES
    sceneRefs,      \* sceneRefs.current: scene, control, exporter, originalGeometry
    scene,          \* the children of the THREE.Scene
    control,        \* the TransformControls (the gizmo)
    orbitControls,  \* the OrbitControls
    cameraSetup,    \* the camera rig: both cameras and which is current
    window,         \* window.innerWidth / window.innerHeight
    meshes,         \* every Display Mesh created so far, by mesh number
    currentMesh,    \* the currentMesh state of the last committed render (0: null)
    pendingMesh,    \* the value queued by setCurrentMesh, not rendered yet (0: none)
    loads,          \* the file loads started so far, in the order of their choice
    nextId,         \* the next fresh geometry identity
    mounted,        \* the viewport effect has run and its cleanup has not
    out,            \* what the last handler did: its event, alerts, downloads, scene operations
    count,          \* the events spent of each bounded kind
    viewport,       \* the mount element, the renderer and the listeners registered at mount
    stlViewer       \* the STLViewer component: its geometry state, refs, gizmo and orbit controls

vars == <<sceneRefs, scene, control, orbitControls, cameraSetup, window, meshes, currentMesh, pendingMesh,
          loads, nextId, mounted, out, count, viewport, stlViewer>>

\* The part of the state the handlers of the component read and write; threw:
\* an exception left the handler.
World ==
    [sceneRefs |-> sceneRefs, scene |-> scene, control |-> control,
     orbitControls |-> orbitControls, cameraSetup |-> cameraSetup, window |-> window,
     meshes |-> meshes, pendingMesh |-> pendingMesh, nextId |-> nextId,
     viewport |-> viewport,
     ops |-> << >>, alerts |-> << >>, created |-> 0, renders |-> 0, threw |-> FALSE]

Child(kind, id) == [kind |-> kind, id |-> id]

\* createScene and the gizmo helper added by the viewport effect.
StaticChildren ==
    {Child("grid", 0), Child("ambientLight", 0), Child("directionalLight", 0),
     Child("gizmo", 0)}

DisplayMeshesIn(children) == {c.id : c \in {d \in children : d.kind = "mesh"}}

Op(name, mesh) == <<name, mesh>>

\* ------------------------------------------------------- mesh construction

\* TransformControls.detach(): no object, no active handle.  The dragging
\* flag is left as it is.
Detach(ctl) == [ctl EXCEPT !.object = 0, !.axis = FALSE]

\* A gizmo that ignores attach(object).
AttachNothing(ctl, mesh) == ctl

\* An attach that puts the gizmo back into translate mode.
AttachResettingMode(ctl, mesh) == [ctl EXCEPT !.object = mesh, !.mode = "translate"]

\* TransformControls.attach(object).
Attach(ctl, mesh) == [ctl EXCEPT !.object = mesh]

\* A cleanup that removes and detaches the mesh and disposes nothing.
cleanupWithoutDispose(w, closureMesh) ==
    IF ~w.sceneRefs.scene \/ ~w.sceneRefs.control \/ closureMesh = 0 THEN w
    ELSE [w EXCEPT
            !.scene = w.scene \ {Child("mesh", closureMesh)},
            !.control = Detach(w.control),
            !.ops = w.ops \o <<Op("remove", closureMesh), Op("detach", w.control.object)>>]

\* cleanupCurrentMesh, with the currentMesh its closure holds.  dispose() acts
\* on the geometry object: an Original Geometry that is the same object is
\* disposed with it.
cleanupCurrentMesh(w, closureMesh) ==
    IF ~w.sceneRefs.scene \/ ~w.sceneRefs.control \/ closureMesh = 0 THEN w
    ELSE [w EXCEPT
            !.scene = w.scene \ {Child("mesh", closureMesh)},
            !.control = Detach(w.control),
            !.meshes = [w.meshes EXCEPT ![closureMesh].geometry.disposed = TRUE,
                                        ![closureMesh].materialDisposed = TRUE],
            !.sceneRefs.originalGeometry.disposed =
                @ \/ w.sceneRefs.originalGeometry.id = w.meshes[closureMesh].geometry.id,
            !.ops = w.ops \o <<Op("remove", closureMesh), Op("detach", w.control.object),
                               Op("disposeGeometry", closureMesh),
                               Op("disposeMaterial", closureMesh)>>]

\* The geometry createMeshFromGeometry keeps for export.
OriginalOf(geometry, id) == Clone(geometry, id)

\* A Display Mesh built on the object stored as Original Geometry (the
\* identity handed out just before) instead of on a clone of its own.
DisplayShared(geometry, id) == ComputeBoundingBox(Clone(geometry, id - 1))

\* The geometry createMeshFromGeometry gives the Display Mesh; calculateAutoScale
\* has computed its bounding box.
DisplayOf(geometry, id) == ComputeBoundingBox(Clone(geometry, id))

\* A new mesh that is left at the scale of its file.
NewMeshUnscaled(displayGeometry) ==
    [geometry |-> displayGeometry, materialDisposed |-> FALSE,
     position |-> Zero3, quaternion |-> 0, scale |-> <<Frac(1), Frac(1), Frac(1)>>,
     load |-> displayGeometry.load]

\* new THREE.Mesh(displayGeometry, material), scaled and placed at the origin.
NewMesh(displayGeometry) ==
    LET autoScale == calculateAutoScale(displayGeometry)
    IN  [geometry |-> displayGeometry, materialDisposed |-> FALSE,
         position |-> Zero3, quaternion |-> 0,
         scale |-> <<autoScale, autoScale, autoScale>>,
         load |-> displayGeometry.load]

\* A createMeshFromGeometry that does not look at the retained references.
createMeshFromGeometryUnguarded(w, geometry, closureMesh) ==
    LET stored == [w EXCEPT !.sceneRefs.originalGeometry = OriginalOf(geometry, w.nextId)]
        cleaned == cleanupCurrentMesh(stored, closureMesh)
        number == Len(w.meshes) + 1
    IN  [cleaned EXCEPT
           !.meshes = Append(cleaned.meshes, NewMesh(DisplayOf(geometry, w.nextId + 1))),
           !.scene = cleaned.scene \cup {Child("mesh", number)},
           !.control = Attach(cleaned.control, number),
           !.pendingMesh = number,
           !.nextId = w.nextId + 2,
           !.created = number,
           !.ops = cleaned.ops \o <<Op("new", number), Op("add", number),
                                    Op("attach", number), Op("setCurrentMesh", number)>>]

\* createMeshFromGeometry(geometry), with the currentMesh its closure holds.
createMeshFromGeometry(w, geometry, closureMesh) ==
    IF ~w.sceneRefs.scene \/ ~w.sceneRefs.control THEN w
    ELSE LET stored == [w EXCEPT !.sceneRefs.originalGeometry =
                                     OriginalOf(geometry, w.nextId)]
             cleaned == cleanupCurrentMesh(stored, closureMesh)
             newMesh == NewMesh(DisplayOf(geometry, w.nextId + 1))
             number == Len(w.meshes) + 1
         IN  [cleaned EXCEPT
                !.meshes = Append(cleaned.meshes, newMesh),
                !.scene = cleaned.scene \cup {Child("mesh", number)},
                !.control = Attach(cleaned.control, number),
                !.pendingMesh = number,
                !.nextId = w.nextId + 2,
                !.created = number,
                !.ops = cleaned.ops \o <<Op("new", number), Op("add", number),
                                         Op("attach", number),
                                         Op("setCurrentMesh", number)>>]

\* The geometry object a loader hands over: a fresh object each parse.  A GLTF
\* primitive carries the bounding box of its position accessor.
Parsed(verts, load, withBox) ==
    [id |-> 0, verts |-> verts,
     boundingBox |-> IF withBox THEN BoxOf(verts) ELSE NullBox,
     disposed |-> FALSE, load |-> load]

Alert(w, message) == [w EXCEPT !.alerts = Append(w.alerts, message)]

\* loadSTLFile: an exception of the parser leaves the function.
loadSTLFile(w, file, load, closureMesh) ==
    createMeshFromGeometry(w, Parsed(file.meshes[1], load, FALSE), closureMesh)

\* loadOBJFile: the first mesh node of the parsed object, or a warning.
loadOBJFile(w, file, load, closureMesh) ==
    LET found == ParsedMeshes(file, "obj")
    IN  IF found # << >>
        THEN createMeshFromGeometry(w, Parsed(found[1], load, FALSE), closureMesh)
        ELSE Alert(w, "No mesh found in OBJ file.")

\* A success callback that cleans up the current mesh before it looks for a
\* mesh node.
gltfOnLoadClearing(w, file, load, closureMesh) ==
    LET found == ParsedMeshes(file, "gltf")
        cleaned == cleanupCurrentMesh(w, closureMesh)
    IN  IF found # << >>
        THEN createMeshFromGeometry(cleaned, Parsed(found[1], load, TRUE), closureMesh)
        ELSE Alert(cleaned, "No mesh found in GLTF file.")

\* loadGLTFFile's success callback.
gltfOnLoad(w, file, load, closureMesh) ==
    LET found == ParsedMeshes(file, "gltf")
    IN  IF found # << >>
        THEN createMeshFromGeometry(w, Parsed(found[1], load, TRUE), closureMesh)
        ELSE Alert(w, "No mesh found in GLTF file.")

\* loadGLTFFile's error callback.
gltfOnError(w) == Alert(w, "Error parsing GLTF file.")

\* reader.onload for a file whose contents are not falsy and whose parser
\* completes within the handler (everything but a GLTF parse that succeeds).
onloadSync(w, file, load, closureMesh) ==
    LET parser == Parser(file)
    IN  CASE parser = "stl" ->
               IF STLThrows(file)
               THEN Alert(w, "Error loading file. Please check if the file is valid.")
               ELSE loadSTLFile(w, file, load, closureMesh)
          [] parser = "obj" -> loadOBJFile(w, file, load, closureMesh)
          [] parser = "gltf" -> gltfOnError(w)
          [] OTHER ->
               Alert(w, "Unsupported file format. Please use STL, OBJ, or GLTF/GLB files.")

\* ------------------------------------------------------------------ export

\* applyTransformToGeometry: the vertices of a clone of the geometry under
\* Matrix4.compose(position, quaternion, scale): scale, then rotate, then
\* translate.  The geometry passed in is not written.
TransformVertex(v, position, quaternion, scale) ==
    QVAdd(FracVec(position),
          Rotate(quaternion, <<QMul(scale[1], Frac(v[1])), QMul(scale[2], Frac(v[2])),
                               QMul(scale[3], Frac(v[3]))>>))

applyTransformToGeometry(geometry, position, quaternion, scale) ==
    [i \in 1..Len(geometry.verts) |->
        TransformVertex(geometry.verts[i], position, quaternion, scale)]

\* createCleanMeshForExport: the transformed vertices in a mesh whose own
\* transform is the identity.
createCleanMeshForExport(verts) ==
    [verts |-> verts, position |-> Zero3, quaternion |-> 0, scale |-> One3]

\* The vertex STLExporter writes: the geometry's vertex under the mesh's
\* world matrix.
WorldVertex(mesh, v) ==
    QVAdd(FracVec(mesh.position),
          Rotate(mesh.quaternion, <<QMul(mesh.scale[1], v[1]), QMul(mesh.scale[2], v[2]),
                                    QMul(mesh.scale[3], v[3])>>))

\* One facet of the STL: the (unnormalised) face normal and three vertices.
Facet(a, b, c) ==
    [normal |-> QCross(QVSub(c, b), QVSub(a, b)), vertices |-> <<a, b, c>>]

\* STLExporter.parse(mesh, {binary}): one facet per three vertices.  size is
\* the byte length of the binary file, and the number of lines of the text.
STLExporterParse(mesh, binary) ==
    LET n == Len(mesh.verts) \div 3
        facets == [k \in 1..n |->
                     Facet(WorldVertex(mesh, mesh.verts[3 * k - 2]),
                           WorldVertex(mesh, mesh.verts[3 * k - 1]),
                           WorldVertex(mesh, mesh.verts[3 * k])) ]
    IN  [binary |-> binary, facets |-> facets,
         size |-> IF binary THEN 84 + 50 * n ELSE 2 + 7 * n]

\* saveFile: one click on a link that downloads the blob under the name.
saveFile(blob, filename) == [filename |-> filename, type |-> blob.type, body |-> blob.body]

\* saveStringAsFile.
saveStringAsFile(text, filename) ==
    saveFile([type |-> "text/plain", body |-> text], filename)

\* A binary save that labels its blob as text.
saveArrayBufferAsText(buffer, filename) ==
    saveFile([type |-> "text/plain", body |-> buffer], filename)

\* saveArrayBufferAsFile.
saveArrayBufferAsFile(buffer, filename) ==
    saveFile([type |-> "application/octet-stream", body |-> buffer], filename)

\* The branch of exportSTL that saves the serializer's result.
Save(result, isBinary) ==
    IF isBinary THEN saveArrayBufferAsFile(result, "model.stl")
    ELSE saveStringAsFile(result, "model.stl")

\* Whether exportSTL refuses: no original geometry, no exporter or no mesh.
ExportRefused(refs, mesh) == refs.originalGeometry.id = 0 \/ ~refs.exporter \/ mesh = 0

\* An export that gives the mesh handed to the serializer the Display Mesh's
\* transform instead of resetting it.
exportSTLKeepingTransform(refs, allMeshes, mesh, isBinary) ==
    LET transformedGeometry ==
            applyTransformToGeometry(refs.originalGeometry, allMeshes[mesh].position,
                                     allMeshes[mesh].quaternion, allMeshes[mesh].scale)
        cleanMesh == [createCleanMeshForExport(transformedGeometry)
                        EXCEPT !.position = allMeshes[mesh].position,
                               !.quaternion = allMeshes[mesh].quaternion,
                               !.scale = allMeshes[mesh].scale]
    IN  [serialized |-> <<cleanMesh>>,
         downloads |-> <<Save(STLExporterParse(cleanMesh, isBinary), isBinary)>>]

\* exportSTL(isBinary) past its guard, with the currentMesh its closure holds:
\* the mesh it hands to the serializer and the download it triggers.
exportSTL(refs, allMeshes, mesh, isBinary) ==
    LET transformedGeometry ==
            applyTransformToGeometry(refs.originalGeometry, allMeshes[mesh].position,
                                     allMeshes[mesh].quaternion, allMeshes[mesh].scale)
        cleanMesh == createCleanMeshForExport(transformedGeometry)
    IN  [serialized |-> <<cleanMesh>>,
         downloads |-> <<Save(STLExporterParse(cleanMesh, isBinary), isBinary)>>]

\* ---------------------------------------------------------------- initial

\* new TransformControls(camera, domElement).
InitialControl ==
    [object |-> 0, mode |-> "translate", space |-> "world",
     translationSnap |-> << >>, rotationSnap |-> << >>, scaleSnap |-> << >>,
     showX |-> TRUE, showY |-> TRUE, showZ |-> TRUE, enabled |-> TRUE,
     size |-> 10, dragging |-> FALSE, axis |-> FALSE,
     positionStart |-> Zero3, quaternionStart |-> 0, scaleStart |-> One3,
     camera |-> "perspective", disposed |-> FALSE]

\* The aspect ratio of the window at mount.
InitialAspect == <<2, 1>>

\* createCameraSetup: CAMERA_CONFIG's cameras, the perspective one current
\* and at INITIAL_POSITION.
createCameraSetup(aspectRatio) ==
    [current |-> "perspective",
     perspective |-> [position |-> <<Frac(5), <<5, 2>>, Frac(5)>>, lookAt |-> << >>,
                      fov |-> Frac(50), aspect |-> aspectRatio, zoom |-> Frac(1)],
     orthographic |-> [position |-> FracVec(Zero3), lookAt |-> << >>,
                       left |-> QMul(Frac(-5), aspectRatio),
                       right |-> QMul(Frac(5), aspectRatio),
                       top |-> Frac(5), bottom |-> Frac(-5), zoom |-> Frac(1)]]

\* The listeners the viewport effect registers: on the window, on the orbit
\* controls and on the gizmo.
WindowListeners == {"resize", "keydown", "keyup"}

ControlListeners == {"orbit.change", "gizmo.change", "gizmo.dragging-changed"}

\* The viewport after the effect: the canvas is a child of the mount element
\* that mountRef holds, the renderer is live, every listener is registered.
InitialViewport ==
    [mountRef |-> TRUE, canvas |-> TRUE, rendererDisposed |-> FALSE,
     listeners |-> WindowListeners \cup ControlListeners]

\* The effect of STLViewer that wires the orbit controls to the gizmo's drags:
\* it registers its listener if both refs hold their controls.
ListenerRegistered(controls, orbit) == controls /\ orbit

\* STLViewer after its first render and that effect, which runs at mount
\* alone: no geometry yet, so no TransformControls is rendered and
\* transformRef holds nothing.  position is the drag offset of the mesh along
\* x, azimuth the quarter turns the orbit controls have turned the camera.
InitialSTLViewer ==
    [geometry |-> << >>, scale |-> << >>, reads |-> << >>,
     transformRef |-> FALSE, orbitRef |-> TRUE,
     listener |-> ListenerRegistered(FALSE, TRUE),
     orbitEnabled |-> TRUE, dragging |-> FALSE, orbiting |-> FALSE,
     position |-> 0, azimuth |-> 0]

Event(kind, load, mesh) == [kind |-> kind, load |-> load, mesh |-> mesh]

\* What a handler did: the alerts it showed, the downloads it triggered, the
\* meshes it handed to the STL serializer, its scene operations in order, the
\* renders it issued; repeat: it is an export that follows an export of the
\* same format with no event in between.
Out(event, alerts, downloads, ops) ==
    [event |-> event, alerts |-> alerts, downloads |-> downloads, ops |-> ops,
     renders |-> 0, serialized |-> << >>, repeat |-> FALSE]

\* The state after the component's first render and its viewport effect;
\* orbitControls.update() has turned the perspective camera to the target.
\* count holds the drags spent and, of the keys pressed so far, the last mode
\* key and the last shift event.
Init ==
    /\ sceneRefs = [scene |-> TRUE, control |-> TRUE, exporter |-> TRUE,
                    originalGeometry |-> NullGeometry]
    /\ scene = StaticChildren
    /\ control = InitialControl
    /\ orbitControls = [enabled |-> TRUE, object |-> "perspective", target |-> Zero3,
                        disposed |-> FALSE]
    /\ window = InitialAspect
    /\ cameraSetup = [createCameraSetup(InitialAspect)
                        EXCEPT !.perspective.lookAt = <<Zero3>>]
    /\ meshes = << >>
    /\ currentMesh = 0
    /\ pendingMesh = 0
    /\ loads = << >>
    /\ nextId = 1
    /\ mounted = TRUE
    /\ out = Out(Event("mount", 0, 0), << >>, << >>, << >>)
    /\ count = [drags |-> 0, modeKey |-> "none", shift |-> "none"]
    /\ viewport = InitialViewport
    /\ stlViewer = InitialSTLViewer

\* ---------------------------------------------------------------- keyboard

\* KeyboardEvent.key.toLowerCase() on the keys the model presses.
toLowerCaseKey(key) ==
    CASE key = "W" -> "w"
      [] key = "E" -> "e"
      [] key = "R" -> "r"
      [] key = "Q" -> "q"
      [] key = "C" -> "c"
      [] key = "V" -> "v"
      [] key = "X" -> "x"
      [] key = "Y" -> "y"
      [] key = "Z" -> "z"
      [] key = "K" -> "k"
      [] key = "Shift" -> "shift"
      [] key = "Escape" -> "escape"
      [] OTHER -> key

\* Math.random() + 0.1, on two draws.
RandomDraws == {<<1, 10>>, <<3, 5>>}

\* handleWindowResize: both projections take the window's aspect ratio, then
\* a render.
handleWindowResize(w) ==
    LET aspectRatio == w.window
        ortho == w.cameraSetup.orthographic
    IN  [w EXCEPT !.cameraSetup.perspective.aspect = aspectRatio,
                  !.cameraSetup.orthographic.left = QMul(ortho.bottom, aspectRatio),
                  !.cameraSetup.orthographic.right = QMul(ortho.top, aspectRatio),
                  !.renders = w.renders + 1]

\* TransformControls.reset(): while a drag is active (and the gizmo enabled),
\* the object goes back to the transform it had when the drag began.
Reset(w) ==
    LET ctl == w.control
    IN  IF ~ctl.enabled \/ ~ctl.dragging \/ ctl.object = 0 THEN w
        ELSE [w EXCEPT !.meshes[ctl.object].position = ctl.positionStart,
                       !.meshes[ctl.object].quaternion = ctl.quaternionStart,
                       !.meshes[ctl.object].scale = ctl.scaleStart,
                       !.renders = w.renders + 1]

\* A camera toggle that leaves the other camera where it was.
ToggleCameraInPlace(w) ==
    LET from == w.cameraSetup.current
        to == IF from = "perspective" THEN "orthographic" ELSE "perspective"
    IN  handleWindowResize(
            [w EXCEPT !.cameraSetup.current = to,
                      !.cameraSetup[to].lookAt = <<w.orbitControls.target>>,
                      !.orbitControls.object = to,
                      !.control.camera = to])

\* A camera toggle that leaves the gizmo with the camera it had.
ToggleCameraLeavingGizmo(w) ==
    LET from == w.cameraSetup.current
        to == IF from = "perspective" THEN "orthographic" ELSE "perspective"
        position == w.cameraSetup[from].position
    IN  handleWindowResize(
            [w EXCEPT !.cameraSetup.current = to,
                      !.cameraSetup[to].position = position,
                      !.cameraSetup[to].lookAt = <<w.orbitControls.target>>,
                      !.orbitControls.object = to])

\* The TOGGLE_CAMERA case of handleKeyDown.
ToggleCamera(w) ==
    LET from == w.cameraSetup.current
        to == IF from = "perspective" THEN "orthographic" ELSE "perspective"
        position == w.cameraSetup[from].position
    IN  handleWindowResize(
            [w EXCEPT !.cameraSetup.current = to,
                      !.cameraSetup[to].position = position,
                      !.cameraSetup[to].lookAt = <<w.orbitControls.target>>,
                      !.orbitControls.object = to,
                      !.control.camera = to])

\* A random zoom that does not re-apply the resize logic.
RandomZoomWithoutResize(w, randomFoV, randomZoom) ==
    [w EXCEPT !.cameraSetup.perspective.fov = QMul(randomFoV, Frac(160)),
              !.cameraSetup.orthographic.bottom = QNeg(QMul(randomFoV, Frac(500))),
              !.cameraSetup.orthographic.top = QMul(randomFoV, Frac(500)),
              !.cameraSetup.perspective.zoom = QMul(randomZoom, Frac(5)),
              !.cameraSetup.orthographic.zoom = QMul(randomZoom, Frac(5))]

\* The RANDOM_ZOOM case of handleKeyDown, with the two random draws.
RandomZoom(w, randomFoV, randomZoom) ==
    handleWindowResize(
        [w EXCEPT !.cameraSetup.perspective.fov = QMul(randomFoV, Frac(160)),
                  !.cameraSetup.orthographic.bottom = QNeg(QMul(randomFoV, Frac(500))),
                  !.cameraSetup.orthographic.top = QMul(randomFoV, Frac(500)),
                  !.cameraSetup.perspective.zoom = QMul(randomZoom, Frac(5)),
                  !.cameraSetup.orthographic.zoom = QMul(randomZoom, Frac(5))])

\* A space key that selects world space whatever the space was.
ToggleSpaceToWorld(w) == [w EXCEPT !.control.space = "world"]

\* The TOGGLE_SPACE case of handleKeyDown.
ToggleSpace(w) ==
    [w EXCEPT !.control.space = IF w.control.space = "local" THEN "world" ELSE "local"]

\* A size decrease without its floor.
DecreaseSizeUnfloored(w) == [w EXCEPT !.control.size = w.control.size - 1]

\* The "-" / "_" case of handleKeyDown: setSize(Math.max(size - 0.1, 0.1)).
DecreaseSize(w) == [w EXCEPT !.control.size = Max2(w.control.size - 1, 1)]

\* A key read as typed, without lower-casing it.
keyAsTyped(key) == key

\* The key handleKeyDown switches on.
SwitchKey(key) == toLowerCaseKey(key)

\* handleKeyDown.  The gizmo size is kept in tenths.
handleKeyDown(w, eventKey, randomFoV, randomZoom) ==
    LET key == SwitchKey(eventKey)
        ctl == w.control
    IN  CASE key = "q" -> ToggleSpace(w)
          [] key = "shift" ->
               [w EXCEPT !.control.translationSnap = <<Frac(1)>>,
                         !.control.rotationSnap = <<Frac(15)>>,
                         !.control.scaleSnap = << <<1, 4>> >>]
          [] key = "w" -> [w EXCEPT !.control.mode = "translate"]
          [] key = "e" -> [w EXCEPT !.control.mode = "rotate"]
          [] key = "r" -> [w EXCEPT !.control.mode = "scale"]
          [] key = "c" -> ToggleCamera(w)
          [] key = "v" -> RandomZoom(w, randomFoV, randomZoom)
          [] key \in {"+", "="} -> [w EXCEPT !.control.size = ctl.size + 1]
          [] key \in {"-", "_"} -> DecreaseSize(w)
          [] key = "x" -> [w EXCEPT !.control.showX = ~ctl.showX]
          [] key = "y" -> [w EXCEPT !.control.showY = ~ctl.showY]
          [] key = "z" -> [w EXCEPT !.control.showZ = ~ctl.showZ]
          [] key = " " -> [w EXCEPT !.control.enabled = ~ctl.enabled]
          [] key = "escape" -> Reset(w)
          [] OTHER -> w

\* A key-up handler that clears the snaps whatever the key.
handleKeyUpAnyKey(w, eventKey) ==
    [w EXCEPT !.control.translationSnap = << >>,
              !.control.rotationSnap = << >>,
              !.control.scaleSnap = << >>]

\* A key-up handler that clears the translation snap alone.
handleKeyUpTranslationOnly(w, eventKey) ==
    IF toLowerCaseKey(eventKey) = "shift"
    THEN [w EXCEPT !.control.translationSnap = << >>]
    ELSE w

\* handleKeyUp.
handleKeyUp(w, eventKey) ==
    IF toLowerCaseKey(eventKey) = "shift"
    THEN [w EXCEPT !.control.translationSnap = << >>,
                   !.control.rotationSnap = << >>,
                   !.control.scaleSnap = << >>]
    ELSE w

\* handleWindowResize of useThreeScene.
useThreeScene_handleWindowResize(w) ==
    LET aspectRatio == w.window
    IN  [w EXCEPT
           !.cameraSetup.perspective.aspect = aspectRatio,
           !.cameraSetup.orthographic.left = QMul(w.cameraSetup.orthographic.bottom, aspectRatio),
           !.cameraSetup.orthographic.right = QMul(w.cameraSetup.orthographic.top, aspectRatio),
           !.renders = w.renders + 1]

\* A router that compares the key with the shortcuts as it was typed.
useThreeScene_handleKeyDownAsTyped(w, eventKey, randomFoV, randomZoom) ==
    handleKeyDown(w, IF eventKey = toLowerCaseKey(eventKey) THEN eventKey ELSE "unmapped",
                  randomFoV, randomZoom)

\* handleKeyDown of useThreeScene.
useThreeScene_handleKeyDown(w, eventKey, randomFoV, randomZoom) ==
    LET key == toLowerCaseKey(eventKey)
        transformControls == w.control
        position == w.cameraSetup[w.cameraSetup.current].position
        other == IF w.cameraSetup.current = "perspective" THEN "orthographic"
                 ELSE "perspective"
    IN  CASE key = "q" ->
               [w EXCEPT !.control.space =
                            IF transformControls.space = "local" THEN "world" ELSE "local"]
          [] key = "shift" ->
               [w EXCEPT !.control.translationSnap = <<Frac(1)>>,
                         !.control.rotationSnap = <<Frac(15)>>,
                         !.control.scaleSnap = << <<1, 4>> >>]
          [] key = "w" -> [w EXCEPT !.control.mode = "translate"]
          [] key = "e" -> [w EXCEPT !.control.mode = "rotate"]
          [] key = "r" -> [w EXCEPT !.control.mode = "scale"]
          [] key = "c" ->
               useThreeScene_handleWindowResize(
                   [w EXCEPT !.cameraSetup.current = other,
                             !.cameraSetup[other].position = position,
                             !.orbitControls.object = other,
                             !.control.camera = other,
                             !.cameraSetup[other].lookAt = <<w.orbitControls.target>>])
          [] key = "v" ->
               useThreeScene_handleWindowResize(
                   [w EXCEPT
                      !.cameraSetup.perspective.fov = QMul(randomFoV, Frac(160)),
                      !.cameraSetup.orthographic.bottom = QNeg(QMul(randomFoV, Frac(500))),
                      !.cameraSetup.orthographic.top = QMul(randomFoV, Frac(500)),
                      !.cameraSetup.perspective.zoom = QMul(randomZoom, Frac(5)),
                      !.cameraSetup.orthographic.zoom = QMul(randomZoom, Frac(5))])
          [] key \in {"+", "="} -> [w EXCEPT !.control.size = transformControls.size + 1]
          [] key \in {"-", "_"} ->
               [w EXCEPT !.control.size = Max2(transformControls.size - 1, 1)]
          [] key = "x" -> [w EXCEPT !.control.showX = ~transformControls.showX]
          [] key = "y" -> [w EXCEPT !.control.showY = ~transformControls.showY]
          [] key = "z" -> [w EXCEPT !.control.showZ = ~transformControls.showZ]
          [] key = " " -> [w EXCEPT !.control.enabled = ~transformControls.enabled]
          [] key = "escape" -> Reset(w)
          [] OTHER -> w

\* handleKeyUp of useThreeScene.
useThreeScene_handleKeyUp(w, eventKey) ==
    IF toLowerCaseKey(eventKey) = "shift"
    THEN [w EXCEPT !.control.translationSnap = << >>,
                   !.control.rotationSnap = << >>,
                   !.control.scaleSnap = << >>]
    ELSE w

\* The call of the callback useKeyboardControls is given as onWindowResize:
\* the component's resize handler, or a function that does nothing.
CallOnWindowResize(onWindowResize, w) ==
    IF onWindowResize = "handleWindowResize" THEN handleWindowResize(w) ELSE w

\* handleKeyDown of useKeyboardControls.
useKeyboardControls_handleKeyDown(w, eventKey, randomFoV, randomZoom, onWindowResize) ==
    LET key == toLowerCaseKey(eventKey)
        transformControls == w.control
        position == w.cameraSetup[w.cameraSetup.current].position
        other == IF w.cameraSetup.current = "perspective" THEN "orthographic"
                 ELSE "perspective"
    IN  CASE key = "q" ->
               [w EXCEPT !.control.space =
                            IF transformControls.space = "local" THEN "world" ELSE "local"]
          [] key = "shift" ->
               [w EXCEPT !.control.translationSnap = <<Frac(1)>>,
                         !.control.rotationSnap = <<Frac(15)>>,
                         !.control.scaleSnap = << <<1, 4>> >>]
          [] key = "w" -> [w EXCEPT !.control.mode = "translate"]
          [] key = "e" -> [w EXCEPT !.control.mode = "rotate"]
          [] key = "r" -> [w EXCEPT !.control.mode = "scale"]
          [] key = "c" ->
               CallOnWindowResize(onWindowResize,
                   [w EXCEPT !.cameraSetup.current = other,
                             !.cameraSetup[other].position = position,
                             !.orbitControls.object = other,
                             !.control.camera = other,
                             !.cameraSetup[other].lookAt = <<w.orbitControls.target>>])
          [] key = "v" ->
               CallOnWindowResize(onWindowResize,
                   [w EXCEPT
                      !.cameraSetup.perspective.fov = QMul(randomFoV, Frac(160)),
                      !.cameraSetup.orthographic.bottom = QNeg(QMul(randomFoV, Frac(500))),
                      !.cameraSetup.orthographic.top = QMul(randomFoV, Frac(500)),
                      !.cameraSetup.perspective.zoom = QMul(randomZoom, Frac(5)),
                      !.cameraSetup.orthographic.zoom = QMul(randomZoom, Frac(5))])
          [] key \in {"+", "="} -> [w EXCEPT !.control.size = transformControls.size + 1]
          [] key \in {"-", "_"} ->
               [w EXCEPT !.control.size = Max2(transformControls.size - 1, 1)]
          [] key = "x" -> [w EXCEPT !.control.showX = ~transformControls.showX]
          [] key = "y" -> [w EXCEPT !.control.showY = ~transformControls.showY]
          [] key = "z" -> [w EXCEPT !.control.showZ = ~transformControls.showZ]
          [] key = " " -> [w EXCEPT !.control.enabled = ~transformControls.enabled]
          [] key = "escape" -> Reset(w)
          [] OTHER -> w

\* handleKeyUp of useKeyboardControls.
useKeyboardControls_handleKeyUp(w, eventKey) ==
    IF toLowerCaseKey(eventKey) = "shift"
    THEN [w EXCEPT !.control.translationSnap = << >>,
                   !.control.rotationSnap = << >>,
                   !.control.scaleSnap = << >>]
    ELSE w

\* ------------------------------------------------------------------- gizmo

\* The pointer-down of TransformControls on a handle of the gizmo: the drag
\* begins, and the dragging-changed listener disables the orbit controls.
pointerDown(w) ==
    LET object == w.meshes[w.control.object]
    IN  [w EXCEPT !.control.axis = TRUE,
                  !.control.dragging = TRUE,
                  !.control.positionStart = object.position,
                  !.control.quaternionStart = object.quaternion,
                  !.control.scaleStart = object.scale,
                  !.orbitControls.enabled = FALSE]

\* The pointer-move of an active drag on the X handle, by one unit along x, a
\* quarter turn about x, or a factor 2 along x, as the mode says; then the
\* change event renders.
pointerMove(w) ==
    LET ctl == w.control
    IN  [w EXCEPT
           !.meshes[ctl.object] =
               CASE ctl.mode = "translate" ->
                      [@ EXCEPT !.position = VAdd(ctl.positionStart, <<1, 0, 0>>)]
                 [] ctl.mode = "rotate" ->
                      [@ EXCEPT !.quaternion = (ctl.quaternionStart + 1) % 4]
                 [] OTHER ->
                      [@ EXCEPT !.scale = <<QMul(ctl.scaleStart[1], Frac(2)),
                                            ctl.scaleStart[2], ctl.scaleStart[3]>>],
           !.renders = w.renders + 1]

\* The pointer-up that ends a drag: the dragging-changed listener enables the
\* orbit controls again.
pointerUp(w) ==
    [w EXCEPT !.control.dragging = FALSE, !.control.axis = FALSE,
              !.orbitControls.enabled = TRUE]

\* ------------------------------------------------------------------- debug

\* debugGeometry of the export hook: it computes the bounding box of the
\* mesh's geometry and of the original geometry, on the objects themselves.
debugGeometryHook(w, mesh) ==
    LET shown == IF mesh = 0 THEN w
                 ELSE [w EXCEPT !.meshes[mesh].geometry =
                                    ComputeBoundingBox(w.meshes[mesh].geometry)]
        stored == IF w.sceneRefs.originalGeometry.id = 0 THEN shown
                  ELSE [shown EXCEPT !.sceneRefs.originalGeometry =
                                         ComputeBoundingBox(w.sceneRefs.originalGeometry)]
    IN  Alert(stored, "debugInfo")

\* debugGeometry of the component: a report, nothing is written.
debugGeometry(w, mesh) ==
    Alert(w, IF mesh = 0
             THEN IF w.sceneRefs.originalGeometry.id = 0
                  THEN "Current mesh: None / Original geometry: None"
                  ELSE "Current mesh: None / Original geometry: Stored"
             ELSE IF w.sceneRefs.originalGeometry.id = 0
                  THEN "Current mesh: Loaded / Original geometry: None"
                  ELSE "Current mesh: Loaded / Original geometry: Stored")

\* ----------------------------------------------------------------- actions

graph == <<sceneRefs, scene, control, orbitControls, cameraSetup, window, meshes,
           pendingMesh, nextId, viewport, stlViewer>>

\* The world a handler leaves, written back to the variables.
Commit(w) ==
    /\ sceneRefs' = w.sceneRefs
    /\ scene' = w.scene
    /\ control' = w.control
    /\ orbitControls' = w.orbitControls
    /\ cameraSetup' = w.cameraSetup
    /\ window' = w.window
    /\ meshes' = w.meshes
    /\ pendingMesh' = w.pendingMesh
    /\ nextId' = w.nextId
    /\ viewport' = w.viewport
    /\ UNCHANGED stlViewer

\* A handler that is no part of a file load ran and left the world w.
Handled(kind, w) ==
    /\ Commit(w)
    /\ out' = [Out(Event(kind, 0, currentMesh), w.alerts, << >>, w.ops)
                 EXCEPT !.renders = w.renders]
    /\ UNCHANGED <<currentMesh, loads, mounted>>

Outcome(w) ==
    IF w.created # 0 THEN "mesh" ELSE IF w.alerts # << >> THEN "alert" ELSE "ignored"

\* The handler that completes load i ran and left the world w.
Finish(i, w) ==
    /\ Commit(w)
    /\ loads' = [loads EXCEPT ![i].stage = "done", ![i].outcome = Outcome(w),
                              ![i].parser = Parser(loads[i].file)]
    /\ out' = Out(Event("load", i, w.created), w.alerts, << >>, w.ops)
    /\ UNCHANGED <<currentMesh, mounted, count>>

\* A file input whose change event aborts the GLTF parses still in flight.
FileChangeAborting(file) ==
    /\ mounted
    /\ Len(loads) < MaxLoads
    /\ file # NoFile
    /\ loads' = Append([j \in DOMAIN loads |->
                           IF loads[j].stage = "parsing"
                           THEN [loads[j] EXCEPT !.stage = "done", !.outcome = "aborted"]
                           ELSE loads[j]],
                       [file |-> file, closure |-> currentMesh,
                        stage |-> "reading", outcome |-> "none",
                        readAs |-> ReadMode(file), parser |-> "none",
                        parsingAtChoice |-> {}])
    /\ out' = Out(Event("change", 0, 0), << >>, << >>, << >>)
    /\ UNCHANGED <<graph, currentMesh, mounted, count>>

\* handleFileUpload: the change event of the file input.  The handlers of the
\* load close over the currentMesh of the render that is on screen.  A load's
\* record also notes how the FileReader was asked to read (readAs), the parser
\* reader.onload dispatched to once it did (parser), and which earlier loads
\* were in their GLTF parse when the file was chosen.
FileChange(file) ==
    /\ mounted
    /\ Len(loads) < MaxLoads
    /\ loads' = IF file = NoFile THEN loads
                ELSE Append(loads,
                            [file |-> file, closure |-> currentMesh,
                             stage |-> "reading", outcome |-> "none",
                             readAs |-> ReadMode(file), parser |-> "none",
                             parsingAtChoice |->
                                 {j \in DOMAIN loads : loads[j].stage = "parsing"}])
    /\ out' = Out(Event("change", 0, 0), << >>, << >>, << >>)
    /\ UNCHANGED <<graph, currentMesh, mounted, count>>

\* reader.onload of load i.
ReadComplete(i) ==
    /\ loads[i].stage = "reading"
    /\ LET file == loads[i].file
       IN  IF Falsy(file)
           THEN /\ loads' = [loads EXCEPT ![i].stage = "done", ![i].outcome = "silent"]
                /\ out' = Out(Event("load", i, 0), << >>, << >>, << >>)
                /\ UNCHANGED <<graph, currentMesh, mounted, count>>
           ELSE IF Parser(file) = "gltf" /\ ~GLTFFails(file)
           THEN /\ loads' = [loads EXCEPT ![i].stage = "parsing",
                                         ![i].parser = Parser(file)]
                /\ out' = Out(Event("read", i, 0), << >>, << >>, << >>)
                /\ UNCHANGED <<graph, currentMesh, mounted, count>>
           ELSE Finish(i, onloadSync(World, file, i, loads[i].closure))

\* The success callback of GLTFLoader.parse for load i.
ParseComplete(i) ==
    /\ loads[i].stage = "parsing"
    /\ Finish(i, gltfOnLoad(World, loads[i].file, i, loads[i].closure))

\* React commits the render that setCurrentMesh queued.
Render ==
    /\ mounted
    /\ pendingMesh # 0
    /\ currentMesh' = pendingMesh
    /\ pendingMesh' = 0
    /\ out' = Out(Event("render", 0, pendingMesh), << >>, << >>, << >>)
    /\ UNCHANGED <<sceneRefs, scene, control, orbitControls, cameraSetup, window,
                   meshes, nextId, loads, mounted, count, viewport, stlViewer>>

\* What exportSTL(isBinary) of the render that is on screen does.
Exported(isBinary) ==
    IF ExportRefused(sceneRefs, currentMesh)
    THEN Out(Event("export", 0, currentMesh),
             <<"No model to export. Please upload a 3D model first.">>, << >>, << >>)
    ELSE LET done == exportSTL(sceneRefs, meshes, currentMesh, isBinary)
         IN  [Out(Event("export", 0, currentMesh), << >>, done.downloads, << >>)
                EXCEPT !.serialized = done.serialized,
                       !.repeat = /\ out.event.kind = "export"
                                  /\ out.downloads # << >>
                                  /\ out.downloads[1].body.binary = isBinary]

\* An export that resets the Display Mesh's own transform once it has baked
\* it into the exported geometry.
ExportResetting(isBinary) ==
    /\ mounted
    /\ out' = Exported(isBinary)
    /\ meshes' = IF ExportRefused(sceneRefs, currentMesh) THEN meshes
                 ELSE [meshes EXCEPT ![currentMesh].position = Zero3,
                                     ![currentMesh].quaternion = 0,
                                     ![currentMesh].scale = One3]
    /\ UNCHANGED <<sceneRefs, scene, control, orbitControls, cameraSetup, window,
                   pendingMesh, nextId, currentMesh, loads, mounted, count, viewport,
                   stlViewer>>

\* An export whose guard returns without a warning.
ExportWithoutWarning(isBinary) ==
    /\ mounted
    /\ out' = [Exported(isBinary) EXCEPT !.alerts = << >>]
    /\ UNCHANGED <<graph, currentMesh, loads, mounted, count>>

\* An export that leaves the mesh it handed to the serializer in the scene.
ExportAddingToScene(isBinary) ==
    /\ mounted
    /\ out' = Exported(isBinary)
    /\ scene' = IF ExportRefused(sceneRefs, currentMesh) THEN scene
                ELSE scene \cup {Child("exportMesh", 0)}
    /\ UNCHANGED <<sceneRefs, control, orbitControls, cameraSetup, window, meshes,
                   pendingMesh, nextId, currentMesh, loads, mounted, count, viewport,
                   stlViewer>>

\* A click on an export button.
Export(isBinary) ==
    /\ mounted
    /\ out' = Exported(isBinary)
    /\ UNCHANGED <<graph, currentMesh, loads, mounted, count>>

\* A click on the debug button of the component.
DebugGeometry ==
    /\ mounted
    /\ Handled("debug", debugGeometry(World, currentMesh))
    /\ UNCHANGED count

\* A click on the debug button wired to the export hook.
DebugGeometryHook ==
    /\ mounted
    /\ Handled("debugHook", debugGeometryHook(World, currentMesh))
    /\ UNCHANGED count

\* A keydown event on the window.  Math.random() is drawn in the RANDOM_ZOOM
\* case alone.  The size keys enlarge the gizmo up to MaxSize.
KeyDown(eventKey) ==
    /\ mounted
    /\ (eventKey \in {"+", "="}) => control.size < MaxSize
    /\ IF eventKey \in {"v", "V"}
       THEN \E randomFoV \in RandomDraws, randomZoom \in RandomDraws :
               Handled("keydown", handleKeyDown(World, eventKey, randomFoV, randomZoom))
       ELSE Handled("keydown", handleKeyDown(World, eventKey, Frac(0), Frac(0)))
    /\ count' = [count EXCEPT
                   !.modeKey = CASE eventKey \in {"w", "W"} -> "w"
                                 [] eventKey \in {"e", "E"} -> "e"
                                 [] eventKey \in {"r", "R"} -> "r"
                                 [] OTHER -> @,
                   !.shift = IF eventKey \in {"Shift", "shift"} THEN "down" ELSE @]

\* A keyup event on the window.
KeyUp(eventKey) ==
    /\ mounted
    /\ Handled("keyup", handleKeyUp(World, eventKey))
    /\ count' = [count EXCEPT
                   !.shift = IF eventKey \in {"Shift", "shift"} THEN "up" ELSE @]

\* A resize event on the window, which has taken the given aspect ratio.
Resize(aspectRatio) ==
    /\ mounted
    /\ Handled("resize", handleWindowResize([World EXCEPT !.window = aspectRatio]))
    /\ UNCHANGED count

\* The pointer goes down on a visible handle of the gizmo.
DragStart ==
    /\ mounted
    /\ count.drags < MaxDrags
    /\ control.enabled
    /\ control.object # 0
    /\ ~control.dragging
    /\ control.showX \/ control.showY \/ control.showZ
    /\ Handled("pointerdown", pointerDown(World))
    /\ count' = [count EXCEPT !.drags = @ + 1]

\* The pointer moves during a drag.
DragMove ==
    /\ mounted
    /\ control.enabled
    /\ control.object # 0
    /\ control.axis
    /\ control.dragging
    /\ Handled("pointermove", pointerMove(World))
    /\ UNCHANGED count

\* The pointer goes up.
DragEnd ==
    /\ mounted
    /\ control.enabled
    /\ control.dragging
    /\ Handled("pointerup", pointerUp(World))
    /\ UNCHANGED count

\* The cleanup function the viewport effect returns.  removeChild throws if
\* the canvas is no child of the mount element, and the rest does not run.
\* dispose() of the controls disconnects them from the canvas' events; the
\* listeners added to the controls themselves are not removed.
cleanup(w) ==
    LET unlistened == [w EXCEPT !.viewport.listeners = @ \ WindowListeners]
    IN  IF unlistened.viewport.mountRef /\ ~unlistened.viewport.canvas
        THEN [unlistened EXCEPT !.threw = TRUE]
        ELSE [unlistened EXCEPT
                !.viewport.canvas = IF w.viewport.mountRef THEN FALSE ELSE @,
                !.orbitControls.disposed = TRUE,
                !.control.disposed = TRUE,
                !.viewport.rendererDisposed = TRUE,
                !.sceneRefs = [scene |-> FALSE, control |-> FALSE, exporter |-> FALSE,
                               originalGeometry |-> NullGeometry]]

\* The cleanup of the viewport effect, at unmount: React has detached
\* mountRef by the time the cleanup of a passive effect runs.
Teardown ==
    /\ mounted
    /\ mounted' = FALSE
    /\ Commit(cleanup([World EXCEPT !.viewport.mountRef = FALSE]))
    /\ out' = Out(Event("teardown", 0, 0), << >>, << >>, << >>)
    /\ UNCHANGED <<currentMesh, loads, count>>

\* The aspect ratios the window is resized to.
Aspects == {<<2, 1>>, <<1, 1>>}

\* The keys pressed in an editing session; the other keys of the router act
\* on the gizmo's settings and the cameras alone.
EditKeys == {"e", "R", "Escape", " ", "k"}

\* Loading: every file, and every interleaving of the loads' completions with
\* renders and unmount.
Next ==
    \/ \E file \in Files \cup {NoFile} : FileChange(file)
    \/ \E i \in DOMAIN loads : ReadComplete(i)
    \/ \E i \in DOMAIN loads : ParseComplete(i)
    \/ Render
    \/ Teardown

Spec == Init /\ [][Next]_vars

\* Editing: one model is chosen, loaded, dragged with the gizmo in every mode
\* and exported, with the keys that bear on a drag, the debug buttons and
\* window resizes in between.
NextEdit ==
    \/ \E file \in ValidFiles : loads = << >> /\ FileChange(file)
    \/ \E i \in DOMAIN loads : ReadComplete(i)
    \/ \E i \in DOMAIN loads : ParseComplete(i)
    \/ Render
    \/ \E isBinary \in BOOLEAN : Export(isBinary)
    \/ DebugGeometry
    \/ DebugGeometryHook
    \/ \E eventKey \in EditKeys : KeyDown(eventKey)
    \/ \E aspectRatio \in Aspects : Resize(aspectRatio)
    \/ DragStart
    \/ DragMove
    \/ DragEnd

SpecEdit == Init /\ [][NextEdit]_vars

\* The keys pressed at the keyboard: the mode, snap, size, camera and reset
\* keys, in either case where the key has one, one axis toggle, the enabled
\* toggle, and a key the router does not map.
Keys == {"w", "W", "e", "E", "r", "R", "Shift", "x", " ", "Escape",
         "+", "=", "-", "_", "c", "C", "k"}

\* The keys released.
KeysUp == {"Shift", "k", "e"}

\* The keyboard: one model is loaded at some time, and keys go down and up in
\* every order.
NextKeys ==
    \/ loads = << >> /\ FileChange(WideObj)
    \/ \E i \in DOMAIN loads : ReadComplete(i)
    \/ Render
    \/ \E eventKey \in Keys : KeyDown(eventKey)
    \/ \E eventKey \in KeysUp : KeyUp(eventKey)

SpecKeys == Init /\ [][NextKeys]_vars

\* The camera keys, the space toggle in either case, one axis toggle and the
\* enabled toggle.
CameraKeys == {"c", "v", "q", "Q", "x", " "}

\* Cameras and toggles: one model is loaded and dragged while the camera,
\* zoom and toggle keys are pressed and the window is resized.
NextCamera ==
    \/ loads = << >> /\ FileChange(SmallStl)
    \/ \E i \in DOMAIN loads : ReadComplete(i)
    \/ Render
    \/ \E eventKey \in CameraKeys : KeyDown(eventKey)
    \/ \E aspectRatio \in Aspects : Resize(aspectRatio)
    \/ DragStart
    \/ DragMove
    \/ DragEnd

SpecCamera == Init /\ [][NextCamera]_vars

\* The files chosen in an exporting session: a binary-read, a text-read and
\* an asynchronously parsed format, of three different shapes.
ExportFiles == {SmallStl, WideObj, CentredGlb}

\* Exporting: models are chosen and loaded one after or over the other, the
\* model on screen is dragged, and the export buttons are clicked at any time,
\* also between the completion of a load and the render that follows it.
NextExport ==
    \/ \E file \in ExportFiles : FileChange(file)
    \/ \E i \in DOMAIN loads : ReadComplete(i)
    \/ \E i \in DOMAIN loads : ParseComplete(i)
    \/ Render
    \/ \E isBinary \in BOOLEAN : Export(isBinary)
    \/ DragStart
    \/ DragMove
    \/ DragEnd

SpecExport == Init /\ [][NextExport]_vars

\* The files chosen in a session that is torn down: one parsed within the
\* read's completion, one parsed asynchronously, one that ends in a warning.
TeardownFiles == {SmallStl, CentredGlb, NoMeshObj}

\* Unmounting: files are chosen and the viewport is torn down at any time,
\* also while reads and parses are in flight, which then complete.
NextTeardown ==
    \/ \E file \in TeardownFiles : FileChange(file)
    \/ \E i \in DOMAIN loads : ReadComplete(i)
    \/ \E i \in DOMAIN loads : ParseComplete(i)
    \/ Render
    \/ Teardown

SpecTeardown == Init /\ [][NextTeardown]_vars

\* --------------------------------------------------------------- STLViewer

\* Everything of the TransformControlsExample component, which STLViewer
\* never touches.
component == <<sceneRefs, scene, control, orbitControls, cameraSetup, window, meshes,
               currentMesh, pendingMesh, loads, nextId, mounted, viewport>>

\* The files chosen in STLViewer's file input; each is read as bytes and
\* handed to STLLoader.
ViewerFiles == {SmallStl, EmptyStl, BadStl, WideObj}

\* scaledGeometry: 500 / maxDim of the geometry's bounding box.
scaledGeometry(verts) ==
    LET size == GetSize(BoxOf(verts))
        maxDim == Max2(size[1], Max2(size[2], size[3]))
    IN  Norm(<<500, maxDim>>)

\* handleFileUpload of STLViewer.
ViewerFileChange(file) ==
    /\ Len(stlViewer.reads) < MaxLoads
    /\ stlViewer' = IF file = NoFile THEN stlViewer
                    ELSE [stlViewer EXCEPT
                            !.reads = Append(@, [file |-> file, stage |-> "reading"])]
    /\ out' = Out(Event("viewerChange", 0, 0), << >>, << >>, << >>)
    /\ UNCHANGED <<component, count>>

\* reader.onload of STLViewer's read i: nothing on empty contents, an
\* exception of STLLoader leaves the handler, and setGeometry otherwise; the
\* render that follows computes the scale and, with a geometry, renders the
\* TransformControls around the mesh, which fills transformRef.  The effect
\* that registers the dragging-changed listener has no dependencies and does
\* not run again.
ViewerReadComplete(i) ==
    /\ stlViewer.reads[i].stage = "reading"
    /\ LET file == stlViewer.reads[i].file
           read == [stlViewer EXCEPT !.reads[i].stage = "done"]
       IN  stlViewer' = IF Falsy(file) \/ STLThrows(file) THEN read
                        ELSE [read EXCEPT !.geometry = <<file.meshes[1]>>,
                                          !.scale = <<scaledGeometry(file.meshes[1])>>,
                                          !.transformRef = TRUE]
    /\ out' = Out(Event("viewerLoad", i, 0), << >>, << >>, << >>)
    /\ UNCHANGED <<component, count>>

\* The dragging-changed listener of STLViewer, if it was registered.
ViewerDraggingChanged(v, value) ==
    IF v.listener THEN [v EXCEPT !.orbitEnabled = ~value] ELSE v

\* The pointer goes down on a handle of STLViewer's gizmo.  The orbit
\* controls listen on the same canvas and start to rotate if they are enabled.
ViewerDragStart ==
    /\ stlViewer.transformRef
    /\ ~stlViewer.dragging
    /\ count.drags < MaxDrags
    /\ LET started == ViewerDraggingChanged([stlViewer EXCEPT !.dragging = TRUE], TRUE)
       IN  stlViewer' = [started EXCEPT !.orbiting = started.orbitEnabled]
    /\ count' = [count EXCEPT !.drags = @ + 1]
    /\ out' = Out(Event("viewerPointerdown", 0, 0), << >>, << >>, << >>)
    /\ UNCHANGED component

\* The pointer moves during a drag in STLViewer: the mesh follows, and so
\* does the camera if the orbit controls rotate.
ViewerDragMove ==
    /\ stlViewer.dragging
    /\ stlViewer' = [stlViewer EXCEPT
                       !.position = 1 - @,
                       !.azimuth = IF stlViewer.orbiting THEN (@ + 1) % 4 ELSE @]
    /\ out' = Out(Event("viewerPointermove", 0, 0), << >>, << >>, << >>)
    /\ UNCHANGED <<component, count>>

\* The pointer goes up in STLViewer.
ViewerDragEnd ==
    /\ stlViewer.dragging
    /\ stlViewer' = [ViewerDraggingChanged([stlViewer EXCEPT !.dragging = FALSE], FALSE)
                       EXCEPT !.orbiting = FALSE]
    /\ out' = Out(Event("viewerPointerup", 0, 0), << >>, << >>, << >>)
    /\ UNCHANGED <<component, count>>

\* STLViewer: files are chosen and read, and the mesh is dragged.
NextViewer ==
    \/ \E file \in ViewerFiles \cup {NoFile} : ViewerFileChange(file)
    \/ \E i \in DOMAIN stlViewer.reads : ViewerReadComplete(i)
    \/ ViewerDragStart
    \/ ViewerDragMove
    \/ ViewerDragEnd

SpecViewer == Init /\ [][NextViewer]_vars

\* ------------------------------------------------------------------ claims

\* The position of the first occurrence of op in ops (0: none).
IndexOf(ops, op) ==
    IF \E k \in DOMAIN ops : ops[k] = op
    THEN CHOOSE k \in DOMAIN ops : ops[k] = op /\ \A j \in 1..(k - 1) : ops[j] # op
    ELSE 0

\* The last handler completed a file load and created a Display Mesh.
Loaded == out.event.kind = "load" /\ out.event.mesh # 0

\* C1: in every reachable state of every interleaving of file choices, read
\* completions, GLTF parse completions and renders, the scene holds at most
\* one Display Mesh.
C1_AtMostOneDisplayMesh == Cardinality(DisplayMeshesIn(scene)) <= 1

\* C2: when a load of a valid .stl, .obj, .gltf or .glb file has created its
\* Display Mesh, exactly one mesh is both a child of the scene and the gizmo's
\* object, namely the new one, and Original Geometry is an object of its own
\* that holds the vertices of the file's first mesh as the file gives them.
C2_LoadYieldsOneAttachedMesh ==
    Loaded =>
        LET new == out.event.mesh
            file == loads[out.event.load].file
        IN  /\ Parser(file) \in {"stl", "obj", "gltf"}
            /\ {m \in DisplayMeshesIn(scene) : m = control.object} = {new}
            /\ sceneRefs.originalGeometry.id \notin {0, meshes[new].geometry.id}
            /\ sceneRefs.originalGeometry.load = out.event.load
            /\ sceneRefs.originalGeometry.verts = file.meshes[1]

\* A .glb load and then an upper-case .OBJ load with two meshes have each
\* created a Display Mesh.
C2_Witness ==
    /\ Loaded
    /\ out.event.load = 2
    /\ loads[1].file = CentredGlb /\ loads[1].outcome = "mesh"
    /\ loads[2].file = WideObj

\* C3: when a load creates a Display Mesh while its handlers hold an earlier
\* one as currentMesh, the earlier mesh is removed from the scene, the gizmo is
\* detached and the earlier geometry and material are disposed, all before the
\* new mesh is constructed, added and attached.
C3_PreviousMeshDisposedFirst ==
    (Loaded /\ loads[out.event.load].closure # 0) =>
        LET old == loads[out.event.load].closure
            new == out.event.mesh
            made == IndexOf(out.ops, Op("new", new))
        IN  /\ \A name \in {"remove", "disposeGeometry", "disposeMaterial"} :
                   /\ IndexOf(out.ops, Op(name, old)) > 0
                   /\ IndexOf(out.ops, Op(name, old)) < made
            /\ \E k \in 1..(made - 1) : out.ops[k][1] = "detach"
            /\ made < IndexOf(out.ops, Op("add", new))
            /\ IndexOf(out.ops, Op("add", new)) < IndexOf(out.ops, Op("attach", new))
            /\ Child("mesh", old) \notin scene
            /\ control.object = new
            /\ meshes[old].geometry.disposed /\ meshes[old].materialDisposed
            /\ ~meshes[new].geometry.disposed /\ ~meshes[new].materialDisposed

\* The second file was chosen after the first load had completed and its mesh
\* had been rendered, and the second load has created its mesh.
C3_Witness ==
    /\ Loaded
    /\ out.event.load = 2 /\ out.event.mesh = 2
    /\ loads[2].closure = 1

\* C4: no load is cancelled (every load of a valid file that completes while
\* the viewer is mounted creates a mesh), and the mesh attached to the gizmo,
\* the mesh that is or is about to be rendered as current and the Original
\* Geometry all come from the load that completed last.
C4_LaterCompletionWins ==
    mounted =>
        /\ \A i \in DOMAIN loads :
              (loads[i].stage = "done" /\ loads[i].file \in ValidFiles)
                  => loads[i].outcome = "mesh"
        /\ Len(meshes) > 0 =>
              LET last == Len(meshes)
              IN  /\ control.object = last
                  /\ IF pendingMesh = 0 THEN currentMesh = last ELSE pendingMesh = last
                  /\ sceneRefs.originalGeometry.load = meshes[last].load
                  /\ sceneRefs.originalGeometry.verts = loads[meshes[last].load].file.meshes[1]

\* The second file was chosen while the GLTF parse of the first was in flight,
\* the second load completed first, the GLTF parse completed after it, and the
\* render has committed.
C4_Witness ==
    /\ mounted
    /\ Len(loads) = 2 /\ Len(meshes) = 2
    /\ loads[2].parsingAtChoice = {1}
    /\ loads[1].stage = "done" /\ loads[2].stage = "done"
    /\ meshes[1].load = 2 /\ meshes[2].load = 1
    /\ pendingMesh = 0 /\ currentMesh = 2

\* C5: Original Geometry is never the geometry object of a Display Mesh, no
\* two Display Meshes share a geometry object, and Original Geometry is never
\* disposed, whatever happens to the Display Meshes' geometries.
C5_OriginalNeverAliased ==
    sceneRefs.originalGeometry.id # 0 =>
        /\ \A m \in DOMAIN meshes : meshes[m].geometry.id # sceneRefs.originalGeometry.id
        /\ \A m, n \in DOMAIN meshes : m # n => meshes[m].geometry.id # meshes[n].geometry.id
        /\ ~sceneRefs.originalGeometry.disposed

\* A Display Mesh's geometry has been disposed while an Original Geometry is
\* stored and another Display Mesh is current.
C5_Witness ==
    /\ sceneRefs.originalGeometry.id # 0
    /\ currentMesh # 0
    /\ \E m \in DOMAIN meshes : meshes[m].geometry.disposed

\* C6: once stored, Original Geometry is left exactly as it is by every step
\* that is not the completion of a load: exports, the debug buttons, drags,
\* keys, resizes and renders.
C6_OriginalGeometryNeverModified ==
    [][(sceneRefs.originalGeometry.id # 0 /\ out'.event.kind # "load")
          => sceneRefs'.originalGeometry = sceneRefs.originalGeometry]_vars

\* Matrix4.compose(position, quaternion, scale) for a rotation of the given
\* quarter turns about x: the rows of T * R * S.
Cos(turns) == CASE turns % 4 = 0 -> 1 [] turns % 4 = 2 -> -1 [] OTHER -> 0

Sin(turns) == CASE turns % 4 = 1 -> 1 [] turns % 4 = 3 -> -1 [] OTHER -> 0

ComposeMatrix(position, quaternion, scale) ==
    LET c == Frac(Cos(quaternion))
        s == Frac(Sin(quaternion))
    IN  << <<scale[1], Frac(0), Frac(0), Frac(position[1])>>,
           <<Frac(0), QMul(c, scale[2]), QNeg(QMul(s, scale[3])), Frac(position[2])>>,
           <<Frac(0), QMul(s, scale[2]), QMul(c, scale[3]), Frac(position[3])>> >>

\* Vector3.applyMatrix4 on an integer vertex.
MatrixApply(M, v) ==
    [r \in 1..3 |->
        QAdd(QAdd(QMul(M[r][1], Frac(v[1])), QMul(M[r][2], Frac(v[2]))),
             QAdd(QMul(M[r][3], Frac(v[3])), M[r][4]))]

\* C7: a successful export hands the serializer a mesh with translation 0,
\* rotation 0 and scale 1 whose vertices are M applied to the vertices of
\* Original Geometry, M composed from the Display Mesh's position, quaternion
\* and scale, and the file's facets hold exactly these vertices.
C7_ExportAppliesTransformOnce ==
    (out.event.kind = "export" /\ out.downloads # << >>) =>
        LET mesh == meshes[currentMesh]
            M == ComposeMatrix(mesh.position, mesh.quaternion, mesh.scale)
            original == sceneRefs.originalGeometry.verts
            handed == out.serialized[1]
            written == out.downloads[1].body.facets
        IN  /\ handed.position = Zero3 /\ handed.quaternion = 0 /\ handed.scale = One3
            /\ Len(handed.verts) = Len(original)
            /\ \A i \in DOMAIN original : handed.verts[i] = MatrixApply(M, original[i])
            /\ 3 * Len(written) = Len(original)
            /\ \A k \in DOMAIN written : \A j \in 1..3 :
                   written[k].vertices[j] = MatrixApply(M, original[3 * (k - 1) + j])

\* An export of a mesh that has been moved, turned and scaled along one axis.
C7_Witness ==
    /\ out.event.kind = "export" /\ out.downloads # << >>
    /\ meshes[currentMesh].position = <<1, 0, 0>>
    /\ meshes[currentMesh].quaternion = 1
    /\ meshes[currentMesh].scale[1] # meshes[currentMesh].scale[2]

\* C8: an export that directly follows an export of the same format hands the
\* serializer the same mesh and downloads the same file.
C8_ConsecutiveExportsIdentical ==
    [][(/\ out.event.kind = "export" /\ out.downloads # << >>
        /\ out'.event.kind = "export" /\ out'.downloads # << >>
        /\ out'.downloads[1].body.binary = out.downloads[1].body.binary)
          => /\ out'.serialized = out.serialized
             /\ out'.downloads = out.downloads]_vars

\* The second of two consecutive exports of the same format, of a mesh that
\* has been moved.
C8_Witness ==
    /\ out.event.kind = "export" /\ out.repeat
    /\ meshes[currentMesh].position # Zero3

\* STLLoader.parse of an exported file: the facets' vertices in order.
STLLoaderParse(body) ==
    [i \in 1..(3 * Len(body.facets)) |->
        body.facets[((i - 1) \div 3) + 1].vertices[((i - 1) % 3) + 1]]

RECURSIVE QBoxFrom(_, _, _)
QBoxFrom(verts, i, box) ==
    IF i > Len(verts) THEN box
    ELSE LET v == verts[i]
         IN  QBoxFrom(verts, i + 1,
               [min |-> <<QMin(box.min[1], v[1]), QMin(box.min[2], v[2]),
                          QMin(box.min[3], v[3])>>,
                max |-> <<QMax(box.max[1], v[1]), QMax(box.max[2], v[2]),
                          QMax(box.max[3], v[3])>>])

\* Box3.getCenter of the bounding box of a non-empty list of vertices.
Center(verts) ==
    LET box == QBoxFrom(verts, 2, [min |-> verts[1], max |-> verts[1]])
    IN  [r \in 1..3 |-> QHalf(QAdd(box.min[r], box.max[r]))]

\* The Display Mesh has its transform of load time but for a translation by
\* (1, 0, 0).
TranslatedByOne(mesh) ==
    LET autoScale == calculateAutoScale(mesh.geometry)
    IN  /\ mesh.position = <<1, 0, 0>>
        /\ mesh.quaternion = 0
        /\ mesh.scale = <<autoScale, autoScale, autoScale>>

\* C9: an ASCII export of a model that has only been translated by (1, 0, 0)
\* parses back to a geometry whose bounding-box center is the center of the
\* original model plus (1, 0, 0).
C9_RoundTripCenterOffset ==
    (/\ out.event.kind = "export" /\ out.downloads # << >>
     /\ ~out.downloads[1].body.binary
     /\ TranslatedByOne(meshes[currentMesh])) =>
        Center(STLLoaderParse(out.downloads[1].body))
            = QVAdd(Center([i \in DOMAIN sceneRefs.originalGeometry.verts |->
                               FracVec(sceneRefs.originalGeometry.verts[i])]),
                    FracVec(<<1, 0, 0>>))

\* C10: an export invoked while Original Geometry, the exporter or the
\* rendered currentMesh is absent shows the warning, downloads nothing, hands
\* nothing to the serializer and leaves the whole session state as it is.
C10_ExportWithoutModelWarns ==
    [][(out'.event.kind = "export" /\ ExportRefused(sceneRefs, currentMesh))
          => /\ out'.alerts = <<"No model to export. Please upload a 3D model first.">>
             /\ out'.downloads = << >>
             /\ out'.serialized = << >>
             /\ UNCHANGED <<graph, currentMesh, loads, mounted>>]_vars

\* An export before any file has been chosen has shown the warning.
C10_Witness ==
    /\ out.event.kind = "export"
    /\ out.alerts # << >>
    /\ loads = << >>

\* The files whose load fails with their content read: an unsupported
\* extension, bytes the STL parser throws on, bytes the GLTF parser rejects,
\* and OBJ and GLTF content without a mesh node.
FailingFiles == {TextFile, BadStl, ObjNamedStl, BadGltf, NoMeshObj, NoMeshGlb}

SuffixParser(file) ==
    CASE file \in {SmallStl, BadStl, ObjNamedStl, EmptyStl} -> "stl"
      [] file \in {WideObj, NoMeshObj, EmptyObj, PointObj} -> "obj"
      [] file \in {CentredGlb, WideGltf, BadGltf, NoMeshGlb} -> "gltf"
      [] OTHER -> "none"

\* C12: every load is read as text exactly when its suffix is .obj, the
\* parser its completion dispatches to is the one of its suffix, and OBJ text
\* under an .stl name goes to the STL parser and creates no mesh.
C12_ParserFromSuffixOnly ==
    \A i \in DOMAIN loads :
        LET file == loads[i].file
            expected == SuffixParser(file)
        IN  /\ loads[i].readAs = IF expected = "obj" THEN "text" ELSE "buffer"
            /\ loads[i].parser \in {"none", expected}
            /\ (loads[i].stage # "reading" /\ loads[i].outcome # "silent")
                  => loads[i].parser = expected
            /\ (loads[i].parser = "obj") => loads[i].readAs = "text"
            /\ (loads[i].parser \in {"stl", "gltf"}) => loads[i].readAs = "buffer"
            /\ (file = ObjNamedStl /\ loads[i].stage = "done") => loads[i].outcome = "alert"

\* An upper-case .OBJ file has gone to the OBJ parser and OBJ text under an
\* .stl name to the STL parser.
C12_Witness ==
    /\ Len(loads) = 2
    /\ loads[1].file = WideObj /\ loads[1].parser = "obj" /\ loads[1].outcome = "mesh"
    /\ loads[2].file = ObjNamedStl /\ loads[2].parser = "stl" /\ loads[2].stage = "done"

\* C13: the completed load of a file with several mesh nodes has created
\* exactly one Display Mesh, from the first mesh node, with no warning.
C13_FirstMeshOnly ==
    /\ \A i \in DOMAIN loads :
          (mounted /\ loads[i].stage = "done" /\ Len(loads[i].file.meshes) > 1)
              => /\ Cardinality({m \in DOMAIN meshes : meshes[m].load = i}) = 1
                 /\ \A m \in DOMAIN meshes :
                       meshes[m].load = i => meshes[m].geometry.verts = loads[i].file.meshes[1]
    /\ (Loaded /\ Len(loads[out.event.load].file.meshes) > 1)
          => /\ Cardinality({k \in DOMAIN out.ops : out.ops[k][1] = "new"}) = 1
             /\ out.alerts = << >>
             /\ sceneRefs.originalGeometry.verts = loads[out.event.load].file.meshes[1]

\* A GLTF file with two mesh nodes and an OBJ file with two mesh nodes have
\* each been loaded.
C13_Witness ==
    /\ Loaded
    /\ out.event.load = 2
    /\ loads[1].file = WideGltf /\ loads[1].outcome = "mesh"
    /\ loads[2].file = WideObj

\* The largest extent of a non-empty list of vertices, from the coordinates.
Extent(verts, axis) ==
    LET coordinates == {verts[i][axis] : i \in DOMAIN verts}
        highest == CHOOSE x \in coordinates : \A y \in coordinates : y <= x
        lowest == CHOOSE x \in coordinates : \A y \in coordinates : x <= y
    IN  highest - lowest

LargestExtent(verts) ==
    CHOOSE e \in {Extent(verts, axis) : axis \in 1..3} :
        \A axis \in 1..3 : Extent(verts, axis) <= e

\* C14: a Display Mesh whose geometry has a largest extent above zero is
\* scaled by 2 divided by that extent (1/2 for extents (4, 2, 1)), and the
\* component and the file-loader hook compute the same factor for it.
C14_AutoScaleIsTargetOverLargestExtent ==
    \A m \in DOMAIN meshes :
        LET geometry == meshes[m].geometry
        IN  (geometry.verts # << >> /\ LargestExtent(geometry.verts) > 0) =>
                /\ QMul(meshes[m].scale[1], Frac(LargestExtent(geometry.verts))) = Frac(2)
                /\ meshes[m].scale[1] = calculateAutoScale(geometry)
                /\ calculateAutoScale(geometry) = calculateAutoScaleHook(geometry)
                /\ (geometry.verts = Wide) => meshes[m].scale[1] = <<1, 2>>

\* A geometry of extents (4, 2, 1) has been loaded and scaled by 1/2.
C14_Witness ==
    \E m \in DOMAIN meshes :
        /\ meshes[m].geometry.verts = Wide
        /\ meshes[m].scale = << <<1, 2>>, <<1, 2>>, <<1, 2>> >>

\* C15: a Display Mesh created from a geometry without vertices, or with a
\* largest extent of zero, has the scale factor 1; every Display Mesh has a
\* finite scale.
C15_DegenerateScaleIsOne ==
    \A m \in DOMAIN meshes :
        LET geometry == meshes[m].geometry
        IN  /\ meshes[m].scale[1][2] # 0
            /\ (geometry.verts = << >> \/ LargestExtent(geometry.verts) = 0)
                  => meshes[m].scale = One3

\* ------------------------------------------------------------ the keyboard

\* The keys of the keyboard the claims range over: those pressed, the other
\* mapped keys, and keys the router does not map.
KeyboardKeys ==
    Keys \cup {"q", "Q", "y", "Y", "z", "Z", "X", "v", "V", "K", "a", "1", "/"}

\* The keys outside the mapped set.
UnmappedKeys == {"k", "K", "a", "1", "/"}

ShiftKeys == {"Shift", "shift"}

\* C16: the gizmo mode is the mode of the most recent "w" / "e" / "r" key-down,
\* in either case, or the initial translate mode if there was none; no other
\* key-down and no key-up changes it; "e" then "w" ends in translate.
C16_ModeFollowsLastModeKey ==
    /\ control.mode = CASE count.modeKey = "w" -> "translate"
                         [] count.modeKey = "e" -> "rotate"
                         [] count.modeKey = "r" -> "scale"
                         [] OTHER -> "translate"
    /\ \A key \in KeyboardKeys, randomFoV \in RandomDraws, randomZoom \in RandomDraws :
          /\ handleKeyDown(World, key, randomFoV, randomZoom).control.mode
               = CASE key \in {"w", "W"} -> "translate"
                   [] key \in {"e", "E"} -> "rotate"
                   [] key \in {"r", "R"} -> "scale"
                   [] OTHER -> control.mode
          /\ handleKeyUp(World, key).control.mode = control.mode
    /\ handleKeyDown(handleKeyDown(World, "e", Frac(0), Frac(0)),
                     "w", Frac(0), Frac(0)).control.mode = "translate"

\* A key was pressed last, shift has been held and released, and the last
\* mode key pressed was "w": the gizmo translates.
C16_Witness ==
    /\ out.event.kind = "keydown"
    /\ count.modeKey = "w"
    /\ count.shift = "up"
    /\ control.mode = "translate"

\* C17: a key-down outside the mapped set and a key-up of a key other than
\* shift change nothing: mode, space, snaps, axis visibility, enabled flag,
\* size, cameras, Display Mesh and Original Geometry all stay as they were.
C17_UnmappedKeysChangeNothing ==
    /\ \A key \in UnmappedKeys, randomFoV \in RandomDraws, randomZoom \in RandomDraws :
          handleKeyDown(World, key, randomFoV, randomZoom) = World
    /\ \A key \in KeyboardKeys \ ShiftKeys :
          handleKeyUp(World, key) = World

\* A key other than shift was released while shift was held and a model was
\* displayed: the snaps are still set.
C17_Witness ==
    /\ out.event.kind = "keyup"
    /\ control.translationSnap # << >>
    /\ currentMesh # 0
    /\ DisplayMeshesIn(scene) = {currentMesh}

\* C18: the three snaps are set together (1, 15 degrees, 0.25) from a shift
\* key-down until the next shift key-up, and unset together otherwise; no
\* other key changes them.
C18_SnapsFollowShift ==
    /\ count.shift = "down" =>
          /\ control.translationSnap = <<Frac(1)>>
          /\ control.rotationSnap = <<Frac(15)>>
          /\ control.scaleSnap = << <<1, 4>> >>
    /\ count.shift # "down" =>
          /\ control.translationSnap = << >>
          /\ control.rotationSnap = << >>
          /\ control.scaleSnap = << >>
    /\ \A key \in KeyboardKeys \ ShiftKeys,
          randomFoV \in RandomDraws, randomZoom \in RandomDraws :
          LET down == handleKeyDown(World, key, randomFoV, randomZoom).control
              up == handleKeyUp(World, key).control
          IN  /\ down.translationSnap = control.translationSnap
              /\ down.rotationSnap = control.rotationSnap
              /\ down.scaleSnap = control.scaleSnap
              /\ up.translationSnap = control.translationSnap
              /\ up.rotationSnap = control.rotationSnap
              /\ up.scaleSnap = control.scaleSnap

\* Shift went down and up again, and a key was pressed after that: the snaps
\* are unset.
C18_Witness ==
    /\ count.shift = "up"
    /\ out.event.kind = "keydown"
    /\ control.translationSnap = << >>
    /\ control.rotationSnap = << >>
    /\ control.scaleSnap = << >>

\* C19: "+" and "=" enlarge the gizmo by one tenth, "-" and "_" shrink it by
\* one tenth but never below one tenth; the size is always at least one tenth.
C19_SizeStepsAndFloor ==
    /\ control.size >= 1
    /\ \A key \in {"+", "="} :
          handleKeyDown(World, key, Frac(0), Frac(0)).control.size = control.size + 1
    /\ \A key \in {"-", "_"} :
          handleKeyDown(World, key, Frac(0), Frac(0)).control.size
            = IF control.size - 1 < 1 THEN 1 ELSE control.size - 1

\* The gizmo has been shrunk down to the floor of one tenth.
C19_Witness ==
    /\ out.event.kind = "keydown"
    /\ control.size = 1

OtherCamera(kind) == IF kind = "perspective" THEN "orthographic" ELSE "perspective"

\* C20: "c" makes the other camera the active one, at the position of the
\* previously active camera and looking at the orbit target; a second "c"
\* brings back the first kind with the position and look-at it had.
C20_CameraToggleRoundTrip ==
    LET from == cameraSetup.current
        to == OtherCamera(from)
        once == handleKeyDown(World, "c", Frac(0), Frac(0))
        twice == handleKeyDown(once, "C", Frac(0), Frac(0))
    IN  /\ once.cameraSetup.current = to
        /\ once.cameraSetup[to].position = cameraSetup[from].position
        /\ once.cameraSetup[to].lookAt = <<orbitControls.target>>
        /\ twice.cameraSetup.current = from
        /\ twice.cameraSetup[from].position = cameraSetup[from].position
        /\ twice.cameraSetup[from].lookAt = cameraSetup[from].lookAt

\* The camera key was pressed last, the perspective camera is active again
\* and the orthographic camera has been turned to the target.
C20_Witness ==
    /\ out.event.kind = "keydown"
    /\ out.renders = 1
    /\ cameraSetup.current = "perspective"
    /\ cameraSetup.orthographic.lookAt = <<orbitControls.target>>
    /\ cameraSetup.orthographic.position = cameraSetup.perspective.position

\* ------------------------------------------------------- reset and loading

\* C21: an Escape key-down leaves the Display Mesh with the identity
\* transform: position (0,0,0), no rotation, scale (1,1,1), whatever its
\* transform was before (auto-scale of the load, finished drags, a drag in
\* progress).
C21_EscapeResetsToIdentity ==
    control.object # 0 =>
        LET after == handleKeyDown(World, "Escape", Frac(0), Frac(0))
            mesh == after.meshes[control.object]
        IN  /\ mesh.position = Zero3
            /\ mesh.quaternion = 0
            /\ mesh.scale = One3

\* C22: in each viewer component the orbit controls are disabled exactly
\* while a drag of the gizmo is active: disabled from the event that starts
\* the drag, enabled again after the event that ends it; for the first mesh
\* loaded as for every later one.
C22_OrbitDisabledExactlyWhileDragging ==
    /\ orbitControls.enabled = ~control.dragging
    /\ stlViewer.orbitEnabled = ~stlViewer.dragging

\* --------------------------------------------------------------- teardown

\* C23: after the teardown of the viewport every listener registered at mount
\* is detached (the window's resize, keydown and keyup listeners, the orbit
\* controls' change listener, the gizmo's change and dragging-changed
\* listeners), the orbit controls, the gizmo and the renderer are disposed,
\* and the retained scene, control, exporter and original geometry are null.
C23_TeardownReleasesEverything ==
    ~mounted =>
        /\ viewport.listeners = {}
        /\ orbitControls.disposed
        /\ control.disposed
        /\ viewport.rendererDisposed
        /\ sceneRefs = [scene |-> FALSE, control |-> FALSE, exporter |-> FALSE,
                        originalGeometry |-> NullGeometry]

\* C24: the cleanup of the viewport is idempotent and throws nothing: run a
\* second time, or run once the canvas is no longer a child of the mount
\* element, it leaves the same released state as one run and no exception.
C24_CleanupIdempotent ==
    mounted =>
        LET once == cleanup(World)
            twice == cleanup(once)
            detached == cleanup([World EXCEPT !.viewport.canvas = FALSE])
        IN  /\ ~once.threw
            /\ ~twice.threw
            /\ twice = once
            /\ ~detached.threw
            /\ detached = once

\* -------------------------------------------------- settings across loads

\* The settings of a session in the world w: the gizmo's mode, space, snaps,
\* axis visibility, enabled flag and size, and the kind of the active camera.
Settings(w) ==
    <<w.control.mode, w.control.space, w.control.translationSnap,
      w.control.rotationSnap, w.control.scaleSnap, w.control.showX, w.control.showY,
      w.control.showZ, w.control.enabled, w.control.size, w.cameraSetup.current>>

\* C25: the settings belong to the session, not to the mesh: a file load,
\* whether it ends in a mesh or in a warning, leaves mode, space, snaps, axis
\* visibility, enabled flag, size and active camera kind as they were.  In
\* every reachable state, the completion of a load of each file keeps them,
\* whether or not there is a mesh to clean up.
C25_LoadKeepsSettings ==
    \A file \in Files :
        /\ Settings(onloadSync(World, file, 1, currentMesh)) = Settings(World)
        /\ Settings(gltfOnLoad(World, file, 1, currentMesh)) = Settings(World)

\* A load has given a mesh to a session whose gizmo rotates, snaps, is
\* disabled and is smaller than at the start, under the orthographic camera.
C25_Witness ==
    /\ Loaded
    /\ control.mode = "rotate"
    /\ control.translationSnap # << >>
    /\ ~control.enabled
    /\ control.size < 10
    /\ cameraSetup.current = "orthographic"
    /\ control.object = out.event.mesh

\* ------------------------------------------------------------ the download

\* C26: every export that is not refused triggers exactly one download, named
\* model.stl, of type text/plain if the binary flag is false and
\* application/octet-stream if it is true, and the serializer runs in text
\* mode exactly when the flag is false.
C26_ExportDownloadsModelStl ==
    /\ (out.event.kind = "export" /\ out.alerts = << >>) =>
          /\ Len(out.downloads) = 1
          /\ Len(out.serialized) = 1
          /\ out.downloads[1].filename = "model.stl"
          /\ out.downloads[1].type = IF out.downloads[1].body.binary
                                     THEN "application/octet-stream" ELSE "text/plain"
    /\ ~ExportRefused(sceneRefs, currentMesh) =>
          \A isBinary \in BOOLEAN :
             LET done == exportSTL(sceneRefs, meshes, currentMesh, isBinary)
             IN  /\ Len(done.downloads) = 1
                 /\ done.downloads[1].filename = "model.stl"
                 /\ done.downloads[1].body.binary = isBinary
                 /\ done.downloads[1].type = IF isBinary THEN "application/octet-stream"
                                             ELSE "text/plain"

\* A binary export of a dragged model has triggered its download.
C26_Witness ==
    /\ out.event.kind = "export"
    /\ Len(out.downloads) = 1
    /\ out.downloads[1].type = "application/octet-stream"
    /\ out.downloads[1].body.binary
    /\ meshes[currentMesh].position # Zero3

\* ---------------------------------------------------- cameras and toggles

\* C27: after any sequence of key, resize and gizmo events one camera of the
\* rig is active, perspective or orthographic, and the orbit controls and the
\* gizmo hold that same camera, which is the one the render function reads.
C27_OneActiveCamera ==
    /\ cameraSetup.current \in {"perspective", "orthographic"}
    /\ orbitControls.object = cameraSetup.current
    /\ control.camera = cameraSetup.current

\* The mesh is being dragged under the orthographic camera.
C27_Witness ==
    /\ out.event.kind = "pointermove"
    /\ cameraSetup.current = "orthographic"
    /\ control.camera = "orthographic"
    /\ orbitControls.object = "orthographic"

Flip(value, a, b) == IF value = a THEN b ELSE a

\* C28: each toggle key flips its own attribute and nothing else: q the
\* gizmo's space, x, y and z the visibility of their axis, space the enabled
\* flag; the same key twice restores the state; keys keep working while the
\* gizmo is disabled.
C28_ToggleKeysFlipTheirOwnAttribute ==
    LET down(w, key) == handleKeyDown(w, key, Frac(0), Frac(0))
    IN  /\ \A key \in {"q", "Q"} :
              down(World, key)
                = [World EXCEPT !.control.space = Flip(control.space, "local", "world")]
        /\ \A key \in {"x", "X"} :
              down(World, key) = [World EXCEPT !.control.showX = ~control.showX]
        /\ \A key \in {"y", "Y"} :
              down(World, key) = [World EXCEPT !.control.showY = ~control.showY]
        /\ \A key \in {"z", "Z"} :
              down(World, key) = [World EXCEPT !.control.showZ = ~control.showZ]
        /\ down(World, " ") = [World EXCEPT !.control.enabled = ~control.enabled]
        /\ \A key \in {"q", "Q", "x", "X", "y", "Y", "z", "Z", " "} :
              down(down(World, key), key) = World
        /\ ~control.enabled =>
              /\ down(World, "r").control.mode = "scale"
              /\ down(World, " ").control.enabled

\* With the gizmo disabled and a model on screen, the space has been toggled
\* to local and the X axis hidden.
C28_Witness ==
    /\ out.event.kind = "keydown"
    /\ ~control.enabled
    /\ control.space = "local"
    /\ ~control.showX
    /\ currentMesh # 0

\* The projections of the rig c fit the aspect ratio, and bottom = -top.
Fits(c, aspectRatio) ==
    /\ c.orthographic.left = QMul(c.orthographic.bottom, aspectRatio)
    /\ c.orthographic.right = QMul(c.orthographic.top, aspectRatio)
    /\ c.orthographic.bottom = QNeg(c.orthographic.top)
    /\ c.perspective.aspect = aspectRatio

\* C29: after a resize and after a "v" key-down the orthographic camera has
\* left = bottom x aspect, right = top x aspect and bottom = -top, the
\* perspective camera has the window's aspect, and a render was issued; "v"
\* gives both cameras the same zoom and keeps the active camera and both
\* positions.
C29_ResizeAndRandomZoomFitTheWindow ==
    /\ out.event.kind = "resize" => Fits(cameraSetup, window) /\ out.renders = 1
    /\ \A aspectRatio \in Aspects :
          LET resized == handleWindowResize([World EXCEPT !.window = aspectRatio])
          IN  Fits(resized.cameraSetup, aspectRatio) /\ resized.renders = 1
    /\ \A key \in {"v", "V"}, randomFoV \in RandomDraws, randomZoom \in RandomDraws :
          LET zoomed == handleKeyDown(World, key, randomFoV, randomZoom)
          IN  /\ Fits(zoomed.cameraSetup, window)
              /\ zoomed.renders = 1
              /\ zoomed.cameraSetup.perspective.zoom = zoomed.cameraSetup.orthographic.zoom
              /\ zoomed.cameraSetup.current = cameraSetup.current
              /\ zoomed.cameraSetup.perspective.position = cameraSetup.perspective.position
              /\ zoomed.cameraSetup.orthographic.position
                   = cameraSetup.orthographic.position

\* "v" was pressed in a window resized to a square, under the orthographic
\* camera: both cameras have the drawn zoom and a render was issued.
C29_Witness ==
    /\ out.event.kind = "keydown"
    /\ out.renders = 1
    /\ window = <<1, 1>>
    /\ cameraSetup.current = "orthographic"
    /\ cameraSetup.perspective.zoom # Frac(1)
    /\ cameraSetup.perspective.zoom = cameraSetup.orthographic.zoom
    /\ cameraSetup.orthographic.top # Frac(5)
    /\ Fits(cameraSetup, window)

\* --------------------------------------------------- the transform at load

\* The extent along an axis of the Display Mesh's vertices in world space;
\* zero for a mesh without vertices, as Box3.getSize gives it.
WorldExtent(mesh, axis) ==
    LET coords == {WorldVertex(mesh, FracVec(mesh.geometry.verts[i]))[axis] :
                      i \in DOMAIN mesh.geometry.verts}
    IN  IF coords = {} THEN Frac(0)
        ELSE LET hi == CHOOSE a \in coords : \A b \in coords : QLe(b, a)
                 lo == CHOOSE a \in coords : \A b \in coords : QLe(a, b)
             IN  QSub(hi, lo)

\* The largest world-space extent of the mesh is the target size.
FitsTargetSize(mesh) ==
    /\ \A axis \in 1..3 : QLe(WorldExtent(mesh, axis), Frac(SCALE_FACTOR))
    /\ \E axis \in 1..3 : WorldExtent(mesh, axis) = Frac(SCALE_FACTOR)

\* The geometry has vertices that are not all in one point.
HasExtent(geometry) == geometry.verts # << >> /\ LargestExtent(geometry.verts) > 0

\* The transform createMeshFromGeometry gives the mesh: the world origin, no
\* rotation, the auto-scale of its geometry along each axis.
HasLoadTransform(mesh) ==
    LET autoScale == calculateAutoScale(mesh.geometry)
    IN  /\ mesh.position = Zero3
        /\ mesh.quaternion = 0
        /\ mesh.scale = <<autoScale, autoScale, autoScale>>

\* C30 (as stated): right after a load that created it, the Display Mesh is at
\* the world origin, not rotated, uniformly scaled by the auto-scale factor of
\* its geometry, and the largest extent of its world-space bounding box is the
\* target size 2, whatever the size of the model in the file.
C30_AnyLoadedMeshFitsTargetSize ==
    Loaded =>
        /\ HasLoadTransform(meshes[out.event.mesh])
        /\ FitsTargetSize(meshes[out.event.mesh])

\* C30 (amended): right after a load that created it, the Display Mesh is at
\* the world origin, not rotated, uniformly scaled by the auto-scale factor of
\* its geometry; if the geometry's largest extent is above zero, the largest
\* extent of the mesh's world-space bounding box is the target size 2.
C30_LoadedMeshFitsTargetSize ==
    Loaded =>
        /\ HasLoadTransform(meshes[out.event.mesh])
        /\ HasExtent(meshes[out.event.mesh].geometry)
              => FitsTargetSize(meshes[out.event.mesh])

\* A second load has replaced a model of extent 1 by one of extent 4, which
\* is scaled down to a half.
C30_Witness ==
    /\ Loaded
    /\ out.event.load = 2
    /\ loads[1].outcome = "mesh"
    /\ LargestExtent(loads[1].file.meshes[1]) = 1
    /\ LargestExtent(meshes[out.event.mesh].geometry.verts) = 4
    /\ meshes[out.event.mesh].scale[1] = <<1, 2>>

\* ------------------------------------------------------ purity and export

\* C31: calculateAutoScale is a pure function: the geometry passed to it is
\* after the call as it was before, cached bounding box included, and a
\* second call on it returns the value of the first.  For the Original
\* Geometry, for the geometry of every Display Mesh, and for the call made in
\* createMeshFromGeometry: the display clone, which is passed to it, still has
\* the cached bounding box of the stored clone, which is not.
C31_CalculateAutoScaleIsPure ==
    /\ \A geometry \in {sceneRefs.originalGeometry}
                          \cup {meshes[m].geometry : m \in DOMAIN meshes} :
          geometry.id # 0 =>
             /\ ComputeBoundingBox(geometry) = geometry
             /\ calculateAutoScale(ComputeBoundingBox(geometry))
                  = calculateAutoScale(geometry)
    /\ Loaded =>
          meshes[out.event.mesh].geometry.boundingBox
            = sceneRefs.originalGeometry.boundingBox

\* The vertices a successful export wrote to its file.
ExportedVertices(o) ==
    {STLLoaderParse(o.downloads[1].body)[i] : i \in 1..(3 * Len(o.downloads[1].body.facets))}

\* The vertices of a Display Mesh in world space: its geometry under its
\* position, rotation and scale.
DisplayedVertices(mesh) ==
    {WorldVertex(mesh, FracVec(mesh.geometry.verts[i])) : i \in DOMAIN mesh.geometry.verts}

\* C32: at every successful export the vertices written to the file are the
\* world-space vertices of the Display Mesh, the mesh that is in the scene and
\* attached to the gizmo, whatever loads and drags came before.
C32_ExportedIsDisplayed ==
    (out.event.kind = "export" /\ out.downloads # << >>) =>
        /\ control.object # 0
        /\ ExportedVertices(out) = DisplayedVertices(meshes[control.object])

\* C33: every successful export combines the Original Geometry and the
\* transform of a Display Mesh that come from the same load.
C33_ExportCombinesOneLoad ==
    (out.event.kind = "export" /\ out.downloads # << >>) =>
        sceneRefs.originalGeometry.load = meshes[out.event.mesh].load

\* -------------------------------------------------- loads and the viewport

\* The retained references after the teardown.
ReleasedRefs ==
    [scene |-> FALSE, control |-> FALSE, exporter |-> FALSE,
     originalGeometry |-> NullGeometry]

\* C34: a read or parse completion that arrives after the teardown creates no
\* mesh, stores no Original Geometry, adds nothing to the scene and attaches
\* nothing to the gizmo, and the retained references stay null.  After the
\* teardown the references are null, the handler that last completed a load
\* made no scene operation and queued no mesh, and the completion of a load
\* of any file, with any mesh in its closure, would leave everything but the
\* warnings shown as it is.
C34_CompletionAfterTeardownCreatesNothing ==
    ~mounted =>
        /\ sceneRefs = ReleasedRefs
        /\ out.event.kind \in {"load", "read"} =>
              /\ out.event.mesh = 0
              /\ out.ops = << >>
        /\ \A file \in Files, closureMesh \in 0..Len(meshes) :
              /\ Falsy(file)
                  \/ [onloadSync(World, file, 1, closureMesh) EXCEPT !.alerts = << >>] = World
              /\ [gltfOnLoad(World, file, 1, closureMesh) EXCEPT !.alerts = << >>] = World

\* A model was loaded and rendered, the viewport was torn down while the
\* parse of a GLTF binary was in flight, and the parse has then completed.
C34_Witness ==
    /\ ~mounted
    /\ out.event.kind = "load"
    /\ out.event.load = 2
    /\ loads[2].file = CentredGlb
    /\ loads[1].outcome = "mesh"
    /\ currentMesh = 1
    /\ Len(meshes) = 1

\* C35: every upload whose read completes while the viewport is mounted ends
\* in exactly one of two outcomes: one call of createMeshFromGeometry, which
\* creates the mesh, or one warning; never both, never neither, files with
\* empty content included.
C35_UploadEndsInMeshOrWarning ==
    mounted =>
        /\ \A i \in DOMAIN loads :
              loads[i].stage = "done" => loads[i].outcome \in {"mesh", "alert"}
        /\ out.event.kind = "load" =>
              \/ out.event.mesh # 0 /\ out.alerts = << >>
              \/ out.event.mesh = 0 /\ Len(out.alerts) = 1

\* ------------------------------------------------------ the three routers

\* The draws a key-down of the key takes: Math.random() is called in the
\* RANDOM_ZOOM case alone.
DrawsFor(key) == IF key \in {"v", "V"} THEN RandomDraws ELSE {Frac(0)}

\* The keys pressed after a camera or zoom key: one key of each setting.
FollowKeys == {"c", "Shift", "r", "-", "x"}

\* C36: the keyboard routers of the component, of useThreeScene and of
\* useKeyboardControls are equivalent.  From every reachable state, a
\* key-down of every key with every draw and a key-up of every key leave the
\* same world under each of the three (useKeyboardControls with the
\* component's resize handler as its callback), so that the three stay in
\* the same state along every sequence of events; and whatever callback
\* useKeyboardControls is given, mode, space, snaps, axis visibility, enabled
\* flag, size and active camera are the same after the event, and after the
\* event that follows a camera or zoom key.
C36_KeyboardRoutersEquivalent ==
    /\ \A key \in KeyboardKeys :
          /\ \A randomFoV \in DrawsFor(key), randomZoom \in DrawsFor(key) :
                LET component_ == handleKeyDown(World, key, randomFoV, randomZoom)
                    hook == useKeyboardControls_handleKeyDown(World, key, randomFoV,
                                                              randomZoom, "none")
                IN  /\ useThreeScene_handleKeyDown(World, key, randomFoV, randomZoom)
                         = component_
                    /\ useKeyboardControls_handleKeyDown(World, key, randomFoV, randomZoom,
                                                         "handleWindowResize") = component_
                    /\ Settings(hook) = Settings(component_)
                    /\ key \in {"c", "v"} =>
                          \A next \in FollowKeys :
                             Settings(useKeyboardControls_handleKeyDown(
                                          hook, next, Frac(0), Frac(0), "none"))
                               = Settings(handleKeyDown(component_, next, Frac(0), Frac(0)))
          /\ useThreeScene_handleKeyUp(World, key) = handleKeyUp(World, key)
          /\ useKeyboardControls_handleKeyUp(World, key) = handleKeyUp(World, key)

\* Under the orthographic camera, in rotate mode, with the snaps set, a
\* smaller gizmo and the X axis hidden, a key has just been released.
C36_Witness ==
    /\ out.event.kind = "keyup"
    /\ cameraSetup.current = "orthographic"
    /\ control.mode = "rotate"
    /\ control.translationSnap = <<Frac(1)>>
    /\ control.size = 9
    /\ ~control.showX

\* ------------------------------------------------------ export reads only

\* C37: an export, successful or refused, leaves the session as it is: the
\* Display Meshes with their position, rotation, scale and geometry, the
\* children of the scene, the gizmo with its object and settings, the orbit
\* controls, the camera rig, the retained references with the Original
\* Geometry, and which mesh is current.
C37_ExportIsReadOnly ==
    [][out'.event.kind = "export"
          => /\ meshes' = meshes
             /\ scene' = scene
             /\ control' = control
             /\ orbitControls' = orbitControls
             /\ cameraSetup' = cameraSetup
             /\ sceneRefs' = sceneRefs
             /\ currentMesh' = currentMesh /\ pendingMesh' = pendingMesh]_vars

\* A model has been exported in the middle of a drag that has moved it, with
\* the orbit controls disabled by the drag.
C37_Witness ==
    /\ out.event.kind = "export"
    /\ out.downloads # << >>
    /\ control.dragging
    /\ ~orbitControls.enabled
    /\ control.object = currentMesh
    /\ meshes[currentMesh].position # Zero3

====
